---- MODULE Spec2Model ----
(***************************************************************************)
(* Media organisation tool: the transfer engine (copier.copy_file), the    *)
(* batch orchestrator (copier.process_media) and the duplicate review      *)
(* window (duplicate_ui.DuplicateReviewWindow), over an explicit file      *)
(* system.                                                                 *)
(*                                                                         *)
(* A path is a sequence of segments (strings).  The file system `fs` is a  *)
(* function from the paths of the existing files to their content.  A      *)
(* content is a record [data, date, valid]: the bytes, the date that       *)
(* get_media_date resolves for the file and whether validate_media accepts *)
(* it.  shutil.copy2 and shutil.move carry the whole record.               *)
(***************************************************************************)
EXTENDS Integers, Sequences, FiniteSets, TLC

\* ------------------------------------------------------------------ bounds
MaxFiles == 2        \* files found by the scan
MaxExisting == 1     \* files already in a destination tree outside the source
MaxData == 2         \* distinct byte contents
MaxFaults == 1       \* I/O failures, callback exceptions and external deletions
MaxPending == 3      \* preview loads in flight
MaxBytes == 3        \* length of a file compared byte by byte
MaxChunk == 4        \* chunk_size of are_files_identical

\* -------------------------------------------------------------- constants
ProgressEvery == 10  \* copier.py: idx % 10 == 0
\* exif_reader.py: the EXIF tag ids of _get_exif_date
DateTimeOriginal == 36867
DateTimeDigitized == 36868
DateTimeTag == 306

NoDate == [year |-> 0, month |-> 0, day |-> 0]
Dates == {[year |-> 2024, month |-> 1, day |-> 15],
          [year |-> 2023, month |-> 6, day |-> 1]}

Names == {"a.jpg", "b.mp4"}
SourceRoot == <<"src">>
DestRoots == {<<"out">>, <<"src">>}

\* The content a failed copy leaves behind: a truncated file.
PartialFile == [data |-> 0, date |-> NoDate, valid |-> FALSE]

\* ------------------------------------------------------- path derivation
DigitStr(d) == <<"0", "1", "2", "3", "4", "5", "6", "7", "8", "9">>[d + 1]

\* f"{n:0wd}": at least w digits, zero padded.
RECURSIVE Pad(_, _)
Pad(n, w) ==
    IF w <= 0
    THEN IF n = 0 THEN "" ELSE Pad(n \div 10, 0) \o DigitStr(n % 10)
    ELSE Pad(n \div 10, w - 1) \o DigitStr(n % 10)

basename(path) == path[Len(path)]
dirname(path) == SubSeq(path, 1, Len(path) - 1)

\* Segments without the zero padding.
DestDirUnpadded(dest_base, date) ==
    dest_base \o <<Pad(date.year, 0), Pad(date.month, 0), Pad(date.day, 0)>>

\* copy_file: {dest_base}/{YYYY}/{MM}/{DD}/{filename}
DestDir(dest_base, date) ==
    dest_base \o <<Pad(date.year, 4), Pad(date.month, 2), Pad(date.day, 2)>>

DestPath(source_path, dest_base, date) ==
    DestDir(dest_base, date) \o <<basename(source_path)>>

IsPrefix(p, q) == Len(p) <= Len(q) /\ SubSeq(q, 1, Len(p)) = p

\* ------------------------------------------------------------ file system
Exists(f, p) == p \in DOMAIN f
WriteFile(f, p, c) == [q \in (DOMAIN f) \cup {p} |-> IF q = p THEN c ELSE f[q]]
RemoveFile(f, p) == [q \in (DOMAIN f) \ {p} |-> f[q]]

\* utils.are_files_identical: same size and same bytes; an I/O error is False.
are_files_identical(f, path1, path2) ==
    /\ Exists(f, path1)
    /\ Exists(f, path2)
    /\ f[path1].data = f[path2].data

\* 0-based list access, as in the code.
At(s, i) == s[i + 1]
Pop(s, i) == SubSeq(s, 1, i) \o SubSeq(s, i + 2, Len(s))

SeqToSet(s) == {s[i] : i \in DOMAIN s}

VARIABLES
    fs,              \* the file system
    faults,          \* failures injected so far
    \* ---- process_media(source_folder, dest_folder, move_files, delete_duplicates)
    pc,              \* position of the batch
    dest_folder,
    move_files,
    check_binary,    \* delete_duplicates, passed to copy_file as check_binary
    media_files,     \* list(scan_folder(source_folder))
    idx,             \* 1-based position in media_files
    date,            \* date resolved for the current file
    result,          \* what copy_file returned for the current file
    success_count,
    image_count,
    video_count,
    duplicate_count,
    error_count,
    invalid_count,
    success_files,
    dup_list,        \* process_media's local `duplicates`
    errors,
    invalid_files,
    progress,        \* the calls of progress_callback so far: (current, total)
    fs0,             \* the file system when the batch (or the review) started
    \* ---- DuplicateReviewWindow
    duplicates,      \* self.duplicates, the working copy
    current_index,
    marked_indices,
    mark_delete_var,
    mark_check,      \* widget states: "normal" | "disabled"
    replace_btn,
    process_btn,
    operator_marked, \* sources of the records the operator has marked
    last,            \* the last window handler that ran and what it reported
    pending,         \* the preview loads in flight
    labels,          \* what source_label and existing_label show
    \* ---- a second run of process_media
    first_run,       \* the counts the first run returned
    \* ---- the reports process_media writes before it returns
    log_dir,         \* the log_dir argument, known once it has been read
    invalid_log_path,
    success_log_path,
    log_files,       \* the files under the log directory
    \* ---- MainWindow and its worker thread
    progress_queue,  \* self.progress_queue
    is_processing,
    start_btn,       \* "normal" | "disabled"
    worker,          \* the thread of _worker_thread: "none" | "running" | "done"
    poller,          \* _check_queue: "scheduled" (root.after) | "draining"
    results,         \* self.results
    sent,            \* every message put on the queue, in the order of the puts
    handled,         \* every message _check_queue has taken and handled
    \* ---- exif_reader.get_image_date(file_path)
    image,           \* the file: whether it opens, its EXIF tags, its mtime
    resolved,        \* what get_image_date returned
    \* ---- a function called on its own
    call,            \* the function and its arguments
    ret              \* <<>> until it returns, then <<the value returned>>

batchVars == <<pc, dest_folder, move_files, check_binary, media_files, idx, date,
               result, success_count, image_count, video_count, duplicate_count,
               error_count, invalid_count, success_files, dup_list, errors,
               invalid_files, progress>>
countVars == <<success_count, image_count, video_count, duplicate_count,
               error_count, invalid_count, success_files, dup_list, errors,
               invalid_files>>
previewVars == <<pending, labels>>
windowVars == <<duplicates, current_index, marked_indices, mark_delete_var,
                mark_check, replace_btn, process_btn, operator_marked, last,
                previewVars>>
logVars == <<log_dir, invalid_log_path, success_log_path, log_files>>
\* What neither a step of the loop of the batch nor a handler of the window
\* changes.
callVars == <<call, ret>>
auxVars == <<first_run, image, resolved, logVars, callVars>>
mainVars == <<progress_queue, is_processing, start_btn, worker, poller, results,
              sent, handled>>
vars == <<fs, faults, fs0, batchVars, windowVars, auxVars, mainVars>>

\* ------------------------------------------------------------ initial state
\* Contents a file can have; an invalid file's date is never read.
FileKinds ==
    {[data |-> d, date |-> dt, valid |-> TRUE] : d \in 1..MaxData, dt \in Dates}
    \cup {[data |-> 1, date |-> NoDate, valid |-> v] : v \in BOOLEAN}

DatedPaths(dest_base) == {DestDir(dest_base, d) \o <<n>> : d \in Dates, n \in Names}

SourcePaths == {<<"src", "a.jpg">>, <<"src", "sub", "a.jpg">>, <<"src", "b.mp4">>}

\* A file an earlier run left in the destination tree sits under its own date.
FromEarlierRun(dest_base, p, c) ==
    /\ c.valid
    /\ c.date \in Dates
    /\ p = DestPath(p, dest_base, c.date)

\* What copy_file returned; `caught` is the class of the exception that one
\* of its except clauses caught ("": none).
NoResult ==
    [success |-> FALSE, dest_path |-> <<>>, is_duplicate |-> FALSE,
     is_identical |-> FALSE, error |-> "", caught |-> ""]

\* What a window handler reported: the answer to its confirmation dialog, the
\* number it asked about, the number it announced (-1: none), an exception.
Ran(op) == [op |-> op, confirmed |-> FALSE, raised |-> FALSE, asked |-> 0, count |-> -1]
NoHandler == Ran("none")

\* A preview label: the kind of thing it shows and the file it belongs to.
Label(kind, path) == [kind |-> kind, path |-> path]

\* No run of process_media has returned yet.
NoRun == [success_count |-> -1, duplicate_count |-> -1]

InitFileSystems(dest_base) ==
    LET inside == IsPrefix(SourceRoot, dest_base)
        scannable == SourcePaths \cup (IF inside THEN DatedPaths(dest_base) ELSE {})
        outside == IF inside THEN {} ELSE DatedPaths(dest_base)
    IN  UNION {
          UNION {
            {f \in [S \cup E -> FileKinds] :
                \A p \in E : FromEarlierRun(dest_base, p, f[p])} :
            E \in {X \in SUBSET outside : Cardinality(X) <= MaxExisting}} :
          S \in {X \in SUBSET scannable : Cardinality(X) \in 1..MaxFiles}}

\* The path None, and the session folder main._start_processing creates.
NoPath == <<>>
LogDir == <<"logs", "session">>

\* No report has been written.
NoReports ==
    /\ log_dir = NoPath
    /\ invalid_log_path = NoPath
    /\ success_log_path = NoPath
    /\ log_files = <<>>

\* A datetime; None is the record of zeros (no datetime has year 0).
datetime(y, mo, d, h, mi, sec) ==
    [year |-> y, month |-> mo, day |-> d, hour |-> h, minute |-> mi, second |-> sec]
None == datetime(0, 0, 0, 0, 0, 0)

\* get_image_date has not been called.
Unresolved == [None EXCEPT !.year = -1]

\* No image is being looked at.
NoImage == [opens |-> FALSE, exif |-> <<>>, mtime |-> None]

\* process_media has not started, no window is open; MainWindow.__init__ has
\* run _check_queue once, on an empty queue.
Fresh ==
    /\ fs0 = fs
    /\ faults = 0
    /\ pc = "start"
    /\ media_files = <<>>
    /\ idx = 0
    /\ date = NoDate
    /\ result = NoResult
    /\ success_count = 0
    /\ image_count = 0
    /\ video_count = 0
    /\ duplicate_count = 0
    /\ error_count = 0
    /\ invalid_count = 0
    /\ success_files = <<>>
    /\ dup_list = <<>>
    /\ errors = <<>>
    /\ invalid_files = <<>>
    /\ progress = <<>>
    /\ duplicates = <<>>
    /\ current_index = 0
    /\ marked_indices = {}
    /\ mark_delete_var = FALSE
    /\ mark_check = "normal"
    /\ replace_btn = "normal"
    /\ process_btn = "disabled"
    /\ operator_marked = {}
    /\ last = NoHandler
    /\ pending = {}
    /\ labels = [source |-> Label("", <<>>), existing |-> Label("", <<>>)]
    /\ first_run = NoRun
    /\ NoReports
    /\ progress_queue = <<>>
    /\ is_processing = FALSE
    /\ start_btn = "normal"
    /\ worker = "none"
    /\ poller = "scheduled"
    /\ results = NoRun
    /\ sent = <<>>
    /\ handled = <<>>

\* No function is called on its own.
NoCall == [fn |-> "", args |-> <<>>]

Init ==
    /\ dest_folder \in DestRoots
    /\ move_files \in BOOLEAN
    /\ check_binary \in BOOLEAN
    /\ fs \in InitFileSystems(dest_folder)
    /\ Fresh
    /\ image = NoImage
    /\ resolved = Unresolved
    /\ call = NoCall
    /\ ret = <<>>

\* ------------------------------------------------------------------ faults
\* An operation of the environment (an I/O call, the progress callback) works,
\* or fails while the fault budget lasts.
Outcomes == IF faults < MaxFaults THEN {TRUE, FALSE} ELSE {TRUE}
Charge(ok) == faults' = IF ok THEN faults ELSE faults + 1

\* The exceptions an I/O call raises: a PermissionError, or another OSError.
ErrorKinds == {"PermissionError", "OSError"}
CallbackError == "callback raised"

\* --------------------------------------------------------------- scanner
VideoNames == {"b.mp4"}
is_video_file(path) == basename(path) \in VideoNames

\* scan_folder: os.walk is top-down and lists the files of one directory
\* together; the order inside a directory is the file system's.
ScanOrders(found) ==
    LET n == Cardinality(found)
    IN  {s \in [1..n -> found] :
           /\ \A i, j \in 1..n : i # j => s[i] # s[j]
           /\ \A i, j \in 1..n :
                (Len(dirname(s[i])) < Len(dirname(s[j]))
                 /\ IsPrefix(dirname(s[i]), dirname(s[j]))) => i < j
           /\ \A i, j, k \in 1..n :
                (i < j /\ j < k /\ dirname(s[i]) = dirname(s[k]))
                    => dirname(s[j]) = dirname(s[i])}

scan_folder(f, folder_path) ==
    ScanOrders({p \in DOMAIN f : IsPrefix(folder_path, p) /\ basename(p) \in Names})

\* ------------------------------------------------- process_media: the loop
total_files == Len(media_files)

\* A loop over the generator itself: the walk goes on while files are
\* transferred, and lists what the tree holds by then.
SourcePathLazy ==
    LET walk == CHOOSE order \in scan_folder(fs, SourceRoot) : TRUE
    IN  IF idx \in DOMAIN walk THEN walk[idx] ELSE media_files[idx]

source_path == media_files[idx]

ErrorRecord(src, msg) == [source |-> src, error |-> msg]

\* An except clause that puts its record at the head of the list.
UnexpectedInserts(cnt, errs, src, msg) ==
    /\ error_count' = cnt + 1
    /\ errors' = <<ErrorRecord(src, msg)>> \o errs

\* The except clause of the loop body: error_count += 1; errors.append(...)
Unexpected(cnt, errs, src, msg) ==
    /\ error_count' = cnt + 1
    /\ errors' = Append(errs, ErrorRecord(src, msg))

\* A loop that a failed file ends: the remaining files are left out.
NextFileUnlessFailed ==
    /\ idx' = IF pc \in {"file", "date"}
                 \/ (pc = "classify" /\ ~result.success /\ ~result.is_duplicate)
              THEN total_files + 1
              ELSE idx + 1
    /\ pc' = "file"
    /\ date' = NoDate
    /\ result' = NoResult

\* Next iteration of `for idx, source_path in enumerate(media_files, 1)`.
NextFile ==
    /\ idx' = idx + 1
    /\ pc' = "file"
    /\ date' = NoDate
    /\ result' = NoResult

\* progress_callback(current, total, status_msg): the call is recorded whether
\* the callback returns or raises.
Call(current, total) == [current |-> current, total |-> total]

\* A batch whose skip, duplicate and error branches report nothing.
BranchCallsNone(n) == <<>>

\* The call of a branch: progress_callback(idx, total_files, "Skipped ..." |
\* "Duplicate found ..." | "Error ...")
BranchCalls(n) == <<Call(n, total_files)>>

\* media_files = list(scan_folder(source_folder)); progress_callback(0, total, ...)
\* The first callback is outside the try: its exception leaves process_media.
Scan ==
    /\ pc = "start"
    /\ \E order \in scan_folder(fs, SourceRoot), cb \in Outcomes :
        /\ media_files' = order
        /\ progress' = <<Call(0, Len(order))>>
        /\ Charge(cb)
        /\ pc' = IF cb THEN "file" ELSE "raised"
    /\ idx' = 1
    /\ UNCHANGED <<fs, fs0, dest_folder, move_files, check_binary, date, result,
                   countVars, windowVars, auxVars>>

\* is_valid, error_msg = validate_media(source_path), and the invalid branch.
Validate ==
    /\ pc = "file"
    /\ idx <= total_files
    /\ IF Exists(fs, source_path) /\ fs[source_path].valid
       THEN /\ pc' = "date"
            /\ UNCHANGED <<idx, date, result, countVars, progress, faults>>
       ELSE /\ progress' = progress \o BranchCalls(idx)
            /\ \E cb \in Outcomes :
                /\ Charge(cb)
                /\ IF cb
                   THEN /\ invalid_count' = invalid_count + 1
                        /\ invalid_files' =
                             Append(invalid_files,
                                    ErrorRecord(source_path, "Cannot identify image"))
                        /\ UNCHANGED <<error_count, errors>>
                   ELSE /\ Unexpected(error_count, errors, source_path, CallbackError)
                        /\ UNCHANGED <<invalid_count, invalid_files>>
            /\ NextFile
            /\ UNCHANGED <<success_count, image_count, video_count, duplicate_count,
                           success_files, dup_list>>
    /\ UNCHANGED <<fs, fs0, dest_folder, move_files, check_binary, media_files,
                   windowVars, auxVars>>

\* A fallback chain that ends in a default date instead of None.
GetMediaDateDefault(f, path) ==
    IF Exists(f, path) /\ f[path].date # NoDate
    THEN f[path].date
    ELSE [year |-> 2024, month |-> 1, day |-> 15]

\* get_media_date: the date the fallback chain resolves for the file.
get_media_date(f, path) == IF Exists(f, path) THEN f[path].date ELSE NoDate

\* date = get_media_date(source_path), and the `if not date` branch.
ResolveDate ==
    /\ pc = "date"
    /\ LET d == get_media_date(fs, source_path)
       IN  IF d # NoDate
           THEN /\ date' = d
                /\ pc' = "transfer"
                /\ UNCHANGED <<idx, result, countVars, progress, faults>>
           ELSE /\ progress' = progress \o BranchCalls(idx)
                /\ \E cb \in Outcomes :
                    /\ Charge(cb)
                    /\ IF cb
                       THEN Unexpected(error_count, errors, source_path,
                                       "Could not extract date")
                       ELSE Unexpected(error_count, errors, source_path, CallbackError)
                /\ NextFile
                /\ UNCHANGED <<success_count, image_count, video_count,
                               duplicate_count, invalid_count, success_files,
                               dup_list, invalid_files>>
    /\ UNCHANGED <<fs, fs0, dest_folder, move_files, check_binary, media_files,
                   windowVars, auxVars>>

\* ------------------------------------------------------------- copy_file
\* dest_path = os.path.join(dest_base, year, month, day, filename)
dest_path == DestPath(source_path, dest_folder, date)

DuplicateResult(identical) ==
    [success |-> FALSE, dest_path |-> dest_path, is_duplicate |-> TRUE,
     is_identical |-> identical, error |-> "", caught |-> ""]
SuccessResult ==
    [success |-> TRUE, dest_path |-> dest_path, is_duplicate |-> FALSE,
     is_identical |-> FALSE, error |-> "", caught |-> ""]

\* str(e) of the exception an I/O call raised.
exception_str(kind) ==
    IF kind = "PermissionError"
    THEN "[Errno 13] Permission denied"
    ELSE "[Errno 28] No space left on device"

\* A copy_file with the one clause `except Exception`.
ErrorTextOneClause(kind) == exception_str(kind)

\* The two except clauses: f"Permission denied: {e}" for a PermissionError,
\* str(e) for any other Exception.
ErrorText(kind) ==
    IF kind = "PermissionError" THEN "Permission denied: " \o exception_str(kind)
    ELSE exception_str(kind)

ErrorResult(kind) ==
    [success |-> FALSE, dest_path |-> <<>>, is_duplicate |-> FALSE,
     is_identical |-> FALSE, error |-> ErrorText(kind), caught |-> kind]

Returns(r) ==
    /\ result' = r
    /\ pc' = "classify"

\* A transfer engine that never finds the destination occupied.
DestinationNeverTaken(f, path) == FALSE

\* if os.path.exists(dest_path):
DestinationTaken(f, path) == Exists(f, path)

\* if os.path.exists(dest_path): ... return duplicate;  os.makedirs(dest_dir)
CopyFileCheck ==
    /\ pc = "transfer"
    /\ IF DestinationTaken(fs, dest_path)
       THEN /\ Returns(DuplicateResult(check_binary
                                       /\ are_files_identical(fs, source_path, dest_path)))
            /\ UNCHANGED faults
       ELSE \E ok \in Outcomes, kind \in ErrorKinds :
                /\ Charge(ok)
                /\ IF ok
                   THEN /\ pc' = IF move_files THEN "move" ELSE "copy"
                        /\ UNCHANGED result
                   ELSE Returns(ErrorResult(kind))
    /\ UNCHANGED <<fs, fs0, dest_folder, move_files, check_binary, media_files, idx,
                   date, countVars, progress, windowVars, auxVars>>

\* A move that leaves the source behind.
MoveRenameKeepsSource ==
    /\ pc = "move"
    /\ \/ /\ Exists(fs, source_path)
          /\ fs' = WriteFile(fs, dest_path, fs[source_path])
          /\ Returns(SuccessResult)
       \/ /\ pc' = "move_copy"
          /\ UNCHANGED <<fs, result>>
    /\ UNCHANGED <<fs0, faults, dest_folder, move_files, check_binary, media_files,
                   idx, date, countVars, progress, windowVars, auxVars>>

\* shutil.move: os.rename, or (rename not possible) copy2 followed by os.unlink.
MoveRename ==
    /\ pc = "move"
    /\ \/ /\ Exists(fs, source_path)
          /\ fs' = RemoveFile(WriteFile(fs, dest_path, fs[source_path]), source_path)
          /\ Returns(SuccessResult)
       \/ /\ pc' = "move_copy"
          /\ UNCHANGED <<fs, result>>
    /\ UNCHANGED <<fs0, faults, dest_folder, move_files, check_binary, media_files,
                   idx, date, countVars, progress, windowVars, auxVars>>

\* shutil.copy2 opens the source and creates the destination file.
CopyBegin ==
    /\ pc \in {"copy", "move_copy"}
    /\ \E ok \in Outcomes, kind \in ErrorKinds :
        IF ok /\ Exists(fs, source_path)
        THEN /\ fs' = WriteFile(fs, dest_path, PartialFile)
             /\ pc' = IF pc = "copy" THEN "copying" ELSE "move_copying"
             /\ UNCHANGED <<result, faults>>
        ELSE /\ Returns(ErrorResult(kind))
             /\ Charge(ok)
             /\ UNCHANGED fs
    /\ UNCHANGED <<fs0, dest_folder, move_files, check_binary, media_files, idx,
                   date, countVars, progress, windowVars, auxVars>>

\* A move whose unlink is not gated on the copy: a failed copy goes on to
\* remove the source.
CopyEndUngated ==
    /\ pc \in {"copying", "move_copying"}
    /\ \E ok \in Outcomes, kind \in ErrorKinds :
        /\ Charge(ok)
        /\ IF ok
           THEN /\ fs' = WriteFile(fs, dest_path, fs[source_path])
                /\ IF pc = "copying"
                   THEN Returns(SuccessResult)
                   ELSE pc' = "move_unlink" /\ UNCHANGED result
           ELSE /\ IF pc = "copying"
                   THEN Returns(ErrorResult(kind))
                   ELSE pc' = "move_unlink" /\ UNCHANGED result
                /\ UNCHANGED fs
    /\ UNCHANGED <<fs0, dest_folder, move_files, check_binary, media_files, idx,
                   date, countVars, progress, windowVars, auxVars>>

\* shutil.copy2 writes the bytes and the metadata, or fails part-way.
CopyEnd ==
    /\ pc \in {"copying", "move_copying"}
    /\ \E ok \in Outcomes, kind \in ErrorKinds :
        /\ Charge(ok)
        /\ IF ok
           THEN /\ fs' = WriteFile(fs, dest_path, fs[source_path])
                /\ IF pc = "copying"
                   THEN Returns(SuccessResult)
                   ELSE pc' = "move_unlink" /\ UNCHANGED result
           ELSE /\ Returns(ErrorResult(kind))
                /\ UNCHANGED fs
    /\ UNCHANGED <<fs0, dest_folder, move_files, check_binary, media_files, idx,
                   date, countVars, progress, windowVars, auxVars>>

\* shutil.move, after the copy: os.unlink(src)
MoveUnlink ==
    /\ pc = "move_unlink"
    /\ \E ok \in Outcomes, kind \in ErrorKinds :
        /\ Charge(ok)
        /\ IF ok
           THEN /\ fs' = RemoveFile(fs, source_path)
                /\ Returns(SuccessResult)
           ELSE /\ Returns(ErrorResult(kind))
                /\ UNCHANGED fs
    /\ UNCHANGED <<fs0, dest_folder, move_files, check_binary, media_files, idx,
                   date, countVars, progress, windowVars, auxVars>>

\* ------------------------------------- process_media: classify the result
\* A callback that raises ends the iteration in the except clause, so at most
\* one callback fails per file: the one of the branch or the periodic one.
ProgressDue == idx % ProgressEvery = 0 \/ idx = total_files

CallbackFailures ==
    {"none"}
    \cup (IF faults < MaxFaults /\ ~result.success THEN {"branch"} ELSE {})
    \cup (IF faults < MaxFaults /\ ProgressDue THEN {"periodic"} ELSE {})

ClassifySuccess(fail) ==
    /\ success_count' = success_count + 1
    /\ IF is_video_file(source_path)
       THEN video_count' = video_count + 1 /\ UNCHANGED image_count
       ELSE image_count' = image_count + 1 /\ UNCHANGED video_count
    /\ success_files' =
         Append(success_files,
                [source |-> source_path, destination |-> result.dest_path])
    /\ IF fail = "periodic"
       THEN Unexpected(error_count, errors, source_path, CallbackError)
       ELSE UNCHANGED <<error_count, errors>>
    /\ UNCHANGED <<duplicate_count, dup_list, invalid_count, invalid_files>>

ClassifyDuplicate(fail) ==
    /\ duplicate_count' = duplicate_count + 1
    /\ dup_list' =
         IF fail = "branch"
         THEN dup_list
         ELSE Append(dup_list,
                     [source |-> source_path, existing |-> result.dest_path,
                      is_identical |-> result.is_identical])
    /\ IF fail = "none"
       THEN UNCHANGED <<error_count, errors>>
       ELSE Unexpected(error_count, errors, source_path, CallbackError)
    /\ UNCHANGED <<success_count, image_count, video_count, success_files,
                   invalid_count, invalid_files>>

ClassifyError(fail) ==
    LET recorded == Append(errors, ErrorRecord(source_path, result.error))
    IN  /\ CASE fail = "none" ->
                  error_count' = error_count + 1 /\ errors' = recorded
             [] fail = "branch" ->
                  Unexpected(error_count + 1, errors, source_path, CallbackError)
             [] fail = "periodic" ->
                  Unexpected(error_count + 1, recorded, source_path, CallbackError)
        /\ UNCHANGED <<success_count, image_count, video_count, success_files,
                       duplicate_count, dup_list, invalid_count, invalid_files>>

Classify ==
    /\ pc = "classify"
    /\ \E fail \in CallbackFailures :
        /\ faults' = IF fail = "none" THEN faults ELSE faults + 1
        /\ progress' =
             progress
             \o (IF result.success THEN <<>> ELSE BranchCalls(idx))
             \o (IF ProgressDue /\ fail # "branch"
                 THEN <<Call(idx, total_files)>>
                 ELSE <<>>)
        /\ IF result.success
           THEN ClassifySuccess(fail)
           ELSE IF result.is_duplicate
                THEN ClassifyDuplicate(fail)
                ELSE ClassifyError(fail)
    /\ NextFile
    /\ UNCHANGED <<fs, fs0, dest_folder, move_files, check_binary, media_files,
                   windowVars, auxVars>>

\* --------------------------------------------- process_media: the reports
\* A report: the title lines, the "Total ..." line (-1: not written) and one
\* record per item.
Report(total, records) == [title |-> TRUE, total |-> total, records |-> records]

Written(files, path) == [files |-> files, path |-> path]

\* _write_invalid_images_log: the file is opened and the two title lines are
\* written; the "Total" line reads len(invalid_images), a name that is not
\* defined anywhere: the NameError is caught by `except Exception` and None
\* is returned.  When makedirs or open fails (~ok) there is no file.
write_invalid_images_log(files, list, dir, ok) ==
    IF ok
    THEN Written(WriteFile(files, dir \o <<"invalid_files.log">>, Report(-1, <<>>)),
                 NoPath)
    ELSE Written(files, NoPath)

\* _write_success_log: title, total, one line per item; the path, or None
\* when makedirs or open fails.
write_success_log(files, list, dir, ok) ==
    IF ok
    THEN Written(WriteFile(files, dir \o <<"success_report.txt">>,
                           Report(Len(list), list)),
                 dir \o <<"success_report.txt">>)
    ELSE Written(files, NoPath)

\* The loop is over: process_media writes the two reports and returns its
\* counts, lists and report paths.  log_dir is read here for the first time:
\* the caller's value (None or a folder) is drawn when it is read.
Return ==
    /\ pc = "file"
    /\ idx > total_files
    /\ pc' = "returned"
    /\ \E dir \in {NoPath, LogDir}, failed \in SUBSET {"invalid", "success"} :
         LET attempted ==
                 (IF invalid_files # <<>> /\ dir # NoPath THEN {"invalid"} ELSE {})
                 \cup (IF success_files # <<>> /\ dir # NoPath THEN {"success"} ELSE {})
             invalid == IF "invalid" \in attempted
                        THEN write_invalid_images_log(log_files, invalid_files, dir,
                                                      "invalid" \notin failed)
                        ELSE Written(log_files, NoPath)
             success == IF "success" \in attempted
                        THEN write_success_log(invalid.files, success_files, dir,
                                               "success" \notin failed)
                        ELSE Written(invalid.files, NoPath)
         IN  /\ failed \subseteq attempted
             /\ faults + Cardinality(failed) <= MaxFaults
             /\ faults' = faults + Cardinality(failed)
             /\ log_dir' = dir
             /\ invalid_log_path' = invalid.path
             /\ success_log_path' = success.path
             /\ log_files' = success.files
    /\ UNCHANGED <<fs, fs0, dest_folder, move_files, check_binary, media_files, idx,
                   date, result, countVars, progress, windowVars, first_run, image,
                   resolved, callVars>>

\* ------------------------------------------------ DuplicateReviewWindow
\* _load_current_duplicate shows the completion text when nothing is focused.
Completed(dups, index) == dups = <<>> \/ index >= Len(dups)

\* _load_current_duplicate: the checkbox variable follows the mark of the
\* focused record; _show_completion disables the two widgets and leaves the
\* variable alone.  Nothing enables the widgets again.
LoadCurrentDuplicate(dups, index, marks) ==
    IF Completed(dups, index)
    THEN /\ replace_btn' = "disabled"
         /\ mark_check' = "disabled"
         /\ UNCHANGED mark_delete_var
    ELSE /\ mark_delete_var' = (index \in marks)
         /\ UNCHANGED <<replace_btn, mark_check>>

\* _load_current_duplicate: the text of match_label for dup.get('is_identical').
match_label(is_identical) ==
    IF is_identical = TRUE
    THEN "Binary Match: YES (Files are identical)"
    ELSE IF is_identical = FALSE
         THEN "Binary Match: NO (Content differs)"
         ELSE ""

\* _update_process_btn
UpdateProcessBtn(marks) ==
    process_btn' = IF marks # {} THEN "normal" ELSE "disabled"

\* The frame of process_media is gone once its result has been handed over;
\* the window never reads the reports, which are not followed any further.
BatchClosed ==
    /\ pc' = "review"
    /\ dest_folder' = <<>>
    /\ move_files' = FALSE
    /\ check_binary' = FALSE
    /\ media_files' = <<>>
    /\ idx' = 0
    /\ date' = NoDate
    /\ result' = NoResult
    /\ success_count' = 0
    /\ image_count' = 0
    /\ video_count' = 0
    /\ duplicate_count' = 0
    /\ error_count' = 0
    /\ invalid_count' = 0
    /\ success_files' = <<>>
    /\ errors' = <<>>
    /\ invalid_files' = <<>>
    /\ progress' = <<>>
    /\ log_dir' = NoPath
    /\ invalid_log_path' = NoPath
    /\ success_log_path' = NoPath
    /\ log_files' = <<>>

\* main._on_processing_complete: if results['duplicates'] and the operator
\* agrees, DuplicateReviewWindow(root, results['duplicates']).__init__
OpenReview ==
    /\ pc = "returned"
    /\ dup_list # <<>>
    /\ duplicates' = dup_list
    /\ current_index' = 0
    /\ marked_indices' = {}
    /\ process_btn' = "disabled"
    /\ mark_delete_var' = FALSE
    /\ UNCHANGED <<replace_btn, mark_check>>
    /\ operator_marked' = {}
    /\ last' = Ran("init")
    /\ BatchClosed
    /\ fs0' = fs
    /\ faults' = 0
    /\ UNCHANGED <<fs, dup_list, first_run, image, resolved, callVars>>

\* self.duplicates = duplicates: the window would name the caller's list.
ListAlias(list) == list

\* duplicates.copy(): a new list object holding the same records.
list_copy(list) == "copy of " \o list

\* results['duplicates'] after the window was constructed: the list object
\* process_media returned. The window's handlers change the list object
\* self.duplicates names, and they only read the records.
ResultsDuplicates ==
    IF list_copy("results['duplicates']") = "results['duplicates']"
    THEN duplicates
    ELSE dup_list

Reviewing == pc = "review"

frame == <<fs0, batchVars, auxVars, mainVars>>

\* _on_list_select: the operator picks a row of the listbox.
OnListSelect ==
    /\ Reviewing
    /\ \E i \in 0..(Len(duplicates) - 1) :
        /\ current_index' = i
        /\ LoadCurrentDuplicate(duplicates, i, marked_indices)
    /\ last' = Ran("select")
    /\ UNCHANGED <<fs, faults, frame, duplicates, marked_indices, process_btn,
                   operator_marked>>

\* _on_prev
OnPrev ==
    /\ Reviewing
    /\ IF current_index > 0
       THEN /\ current_index' = current_index - 1
            /\ LoadCurrentDuplicate(duplicates, current_index - 1, marked_indices)
       ELSE UNCHANGED <<current_index, mark_delete_var, replace_btn, mark_check>>
    /\ last' = Ran("prev")
    /\ UNCHANGED <<fs, faults, frame, duplicates, marked_indices, process_btn,
                   operator_marked>>

\* _on_next
OnNext ==
    /\ Reviewing
    /\ IF current_index < Len(duplicates) - 1
       THEN /\ current_index' = current_index + 1
            /\ LoadCurrentDuplicate(duplicates, current_index + 1, marked_indices)
       ELSE UNCHANGED <<current_index, mark_delete_var, replace_btn, mark_check>>
    /\ last' = Ran("next")
    /\ UNCHANGED <<fs, faults, frame, duplicates, marked_indices, process_btn,
                   operator_marked>>

\* The sources of the records the operator has marked: a mark that is set
\* or cleared belongs to the record focused at that moment.
Focused(dups, index) ==
    IF index >= 0 /\ index < Len(dups) THEN {At(dups, index).source} ELSE {}

\* _on_mark_toggle, with the checkbox variable as the caller left it.
MarkToggle(var) ==
    LET marks == IF var
                 THEN marked_indices \cup {current_index}
                 ELSE marked_indices \ {current_index}
    IN  /\ marked_indices' = marks
        /\ operator_marked' =
             IF marks = marked_indices
             THEN operator_marked
             ELSE IF var
                  THEN operator_marked \cup Focused(duplicates, current_index)
                  ELSE operator_marked \ Focused(duplicates, current_index)
        /\ UpdateProcessBtn(marks)

\* A click on the checkbox: Tk flips the variable, then calls the command.
OnMarkToggleCheckbox ==
    /\ Reviewing
    /\ mark_check = "normal"
    /\ mark_delete_var' = ~mark_delete_var
    /\ MarkToggle(~mark_delete_var)
    /\ last' = Ran("toggle_checkbox")
    /\ UNCHANGED <<fs, faults, frame, duplicates, current_index, replace_btn,
                   mark_check>>

\* The x, X and space bindings call _on_mark_toggle directly.
OnMarkToggleKey ==
    /\ Reviewing
    /\ MarkToggle(mark_delete_var)
    /\ last' = Ran("toggle_key")
    /\ UNCHANGED <<fs, faults, frame, duplicates, current_index, mark_delete_var,
                   replace_btn, mark_check>>

\* A replace that moves the source over the existing file.
ReplaceFileMoves(f, dup) ==
    RemoveFile(WriteFile(f, dup.existing, f[dup.source]), dup.source)

\* shutil.copy2(dup['source'], dup['existing'])
ReplaceFile(f, dup) == WriteFile(f, dup.existing, f[dup.source])

\* A replace that removes the record whether or not the copy worked.
OnReplaceDropsOnFailure ==
    /\ Reviewing
    /\ replace_btn = "normal"
    /\ IF Completed(duplicates, current_index)
       THEN /\ last' = Ran("replace")
            /\ UNCHANGED <<fs, faults, duplicates, current_index, mark_delete_var,
                           replace_btn, mark_check, operator_marked>>
       ELSE LET dup == At(duplicates, current_index)
                able == Exists(fs, dup.source) /\ dup.source # dup.existing
                said(answer) ==
                    [Ran("replace") EXCEPT !.confirmed = answer, !.asked = 1]
            IN  \/ /\ last' = said(FALSE)
                   /\ UNCHANGED <<fs, faults, duplicates, current_index,
                                  mark_delete_var, replace_btn, mark_check,
                                  operator_marked>>
                \/ /\ \/ /\ able
                         /\ last' = [said(TRUE) EXCEPT !.count = 1]
                         /\ fs' = ReplaceFile(fs, dup)
                         /\ UNCHANGED faults
                      \/ /\ ~able
                         /\ last' = said(TRUE)
                         /\ UNCHANGED <<fs, faults>>
                      \/ /\ able
                         /\ faults < MaxFaults
                         /\ last' = said(TRUE)
                         /\ faults' = faults + 1
                         /\ \E truncated \in BOOLEAN :
                              fs' = IF truncated
                                    THEN WriteFile(fs, dup.existing, PartialFile)
                                    ELSE fs
                   /\ duplicates' = Pop(duplicates, current_index)
                   /\ operator_marked' = operator_marked \ {dup.source}
                   /\ LoadCurrentDuplicate(Pop(duplicates, current_index),
                                           current_index, marked_indices)
                   /\ UNCHANGED current_index
    /\ UNCHANGED <<frame, marked_indices, process_btn>>

\* _on_replace: shutil.copy2(dup['source'], dup['existing']), then the record
\* is popped and the view reloaded; last.count = 1 stands for the log line
\* "Replaced ...".  copy2 refuses a missing source and a source that is the
\* destination itself; a copy that fails may have truncated the destination.
OnReplace ==
    /\ Reviewing
    /\ replace_btn = "normal"
    /\ IF Completed(duplicates, current_index)
       THEN /\ last' = Ran("replace")
            /\ UNCHANGED <<fs, faults, duplicates, current_index, mark_delete_var,
                           replace_btn, mark_check, operator_marked>>
       ELSE LET dup == At(duplicates, current_index)
                able == Exists(fs, dup.source) /\ dup.source # dup.existing
                said(answer) ==
                    [Ran("replace") EXCEPT !.confirmed = answer, !.asked = 1]
            IN  \/ /\ last' = said(FALSE)
                   /\ UNCHANGED <<fs, faults, duplicates, current_index,
                                  mark_delete_var, replace_btn, mark_check,
                                  operator_marked>>
                \/ /\ able
                   /\ last' = [said(TRUE) EXCEPT !.count = 1]
                   /\ fs' = ReplaceFile(fs, dup)
                   /\ duplicates' = Pop(duplicates, current_index)
                   /\ operator_marked' = operator_marked \ {dup.source}
                   /\ LoadCurrentDuplicate(Pop(duplicates, current_index),
                                           current_index, marked_indices)
                   /\ UNCHANGED <<faults, current_index>>
                \/ /\ ~able
                   /\ last' = said(TRUE)
                   /\ UNCHANGED <<fs, faults, duplicates, current_index,
                                  mark_delete_var, replace_btn, mark_check,
                                  operator_marked>>
                \/ /\ able
                   /\ faults < MaxFaults
                   /\ last' = said(TRUE)
                   /\ faults' = faults + 1
                   /\ \E truncated \in BOOLEAN :
                        fs' = IF truncated
                              THEN WriteFile(fs, dup.existing, PartialFile)
                              ELSE fs
                   /\ UNCHANGED <<duplicates, current_index, mark_delete_var,
                                  replace_btn, mark_check, operator_marked>>
    /\ UNCHANGED <<frame, marked_indices, process_btn>>

\* sorted(list(self.marked_indices), reverse=True)
RECURSIVE SortedReverse(_)
SortedReverse(S) ==
    IF S = {}
    THEN <<>>
    ELSE LET m == CHOOSE x \in S : \A y \in S : y <= x
         IN  <<m>> \o SortedReverse(S \ {m})

\* A loop that drops the record of a file it could not delete.
RECURSIVE DeleteMarkedDropsFailed(_, _, _, _, _)
DeleteMarkedDropsFailed(order, f, dups, denied, deleted_count) ==
    IF order = <<>>
    THEN [fs |-> f, duplicates |-> dups, deleted_count |-> deleted_count,
          raised |-> FALSE]
    ELSE LET index == Head(order)
         IN  IF index >= Len(dups)
             THEN [fs |-> f, duplicates |-> dups, deleted_count |-> deleted_count,
                   raised |-> TRUE]
             ELSE LET dup == At(dups, index)
                  IN  IF Exists(f, dup.source) /\ dup.source \notin denied
                      THEN DeleteMarkedDropsFailed(Tail(order), RemoveFile(f, dup.source),
                                        Pop(dups, index), denied, deleted_count + 1)
                      ELSE DeleteMarkedDropsFailed(Tail(order), f, Pop(dups, index),
                                                   denied, deleted_count)

\* The loop of _on_process_batch.  self.duplicates[index] is outside the try:
\* an index past the end of the list raises IndexError out of the handler.
\* os.remove fails for a missing file and for the files in `denied`.
RECURSIVE DeleteMarked(_, _, _, _, _)
DeleteMarked(order, f, dups, denied, deleted_count) ==
    IF order = <<>>
    THEN [fs |-> f, duplicates |-> dups, deleted_count |-> deleted_count,
          raised |-> FALSE]
    ELSE LET index == Head(order)
         IN  IF index >= Len(dups)
             THEN [fs |-> f, duplicates |-> dups, deleted_count |-> deleted_count,
                   raised |-> TRUE]
             ELSE LET dup == At(dups, index)
                  IN  IF Exists(f, dup.source) /\ dup.source \notin denied
                      THEN DeleteMarked(Tail(order), RemoveFile(f, dup.source),
                                        Pop(dups, index), denied, deleted_count + 1)
                      ELSE DeleteMarked(Tail(order), f, dups, denied, deleted_count)

\* The files whose deletion the environment may refuse in this handler.
Deniable ==
    {D \in SUBSET {At(duplicates, i).source :
                      i \in {j \in marked_indices : j < Len(duplicates)}} :
        /\ Cardinality(D) <= MaxFaults - faults
        /\ \A p \in D : Exists(fs, p)}

\* _on_process_batch
OnProcessBatch ==
    /\ Reviewing
    /\ process_btn = "normal"
    /\ IF marked_indices = {}
       THEN /\ last' = Ran("process_batch")
            /\ UNCHANGED <<fs, faults, duplicates, current_index, marked_indices,
                           mark_delete_var, replace_btn, mark_check, process_btn,
                           operator_marked>>
       ELSE \E answer \in BOOLEAN, denied \in Deniable :
              LET asked == Cardinality(marked_indices)
                  done == DeleteMarked(SortedReverse(marked_indices), fs,
                                       duplicates, denied, 0)
                  said == [Ran("process_batch") EXCEPT
                              !.confirmed = answer, !.asked = asked]
              IN  IF ~answer
                  THEN /\ denied = {}
                       /\ last' = said
                       /\ UNCHANGED <<fs, faults, duplicates, current_index,
                                      marked_indices, mark_delete_var, replace_btn,
                                      mark_check, process_btn, operator_marked>>
                  ELSE IF done.raised
                  THEN /\ denied = {}
                       /\ last' = [said EXCEPT !.raised = TRUE]
                       /\ fs' = done.fs
                       /\ duplicates' = done.duplicates
                       /\ UNCHANGED <<faults, current_index, marked_indices,
                                      mark_delete_var, replace_btn, mark_check,
                                      process_btn, operator_marked>>
                  ELSE /\ last' = [said EXCEPT !.count = done.deleted_count]
                       /\ fs' = done.fs
                       /\ faults' = faults + Cardinality(denied)
                       /\ duplicates' = done.duplicates
                       /\ marked_indices' = {}
                       /\ operator_marked' = {}
                       /\ current_index' = 0
                       /\ LoadCurrentDuplicate(done.duplicates, 0, {})
                       /\ UpdateProcessBtn({})
    /\ UNCHANGED frame

\* Somebody else removes the source file of a record while the window is open.
ExternalDelete ==
    /\ Reviewing
    /\ faults < MaxFaults
    /\ \E i \in DOMAIN duplicates :
        /\ Exists(fs, duplicates[i].source)
        /\ fs' = RemoveFile(fs, duplicates[i].source)
    /\ faults' = faults + 1
    /\ last' = Ran("external")
    /\ UNCHANGED <<frame, duplicates, current_index, marked_indices,
                   mark_delete_var, replace_btn, mark_check, process_btn,
                   operator_marked>>

\* The window with its preview labels left out: they are followed in
\* SpecPreview.
ReviewNext ==
    \/ OpenReview /\ UNCHANGED <<previewVars, mainVars>>
    \/ OnListSelect /\ UNCHANGED previewVars
    \/ OnPrev /\ UNCHANGED previewVars
    \/ OnNext /\ UNCHANGED previewVars
    \/ OnMarkToggleCheckbox /\ UNCHANGED previewVars
    \/ OnMarkToggleKey /\ UNCHANGED previewVars
    \/ OnReplace /\ UNCHANGED previewVars
    \/ OnProcessBatch /\ UNCHANGED previewVars
    \/ ExternalDelete /\ UNCHANGED previewVars

\* process_media called directly: no MainWindow takes part.
BatchNext ==
    \/ Scan /\ UNCHANGED mainVars
    \/ Validate /\ UNCHANGED mainVars
    \/ ResolveDate /\ UNCHANGED mainVars
    \/ CopyFileCheck /\ UNCHANGED mainVars
    \/ MoveRename /\ UNCHANGED mainVars
    \/ CopyBegin /\ UNCHANGED mainVars
    \/ CopyEnd /\ UNCHANGED mainVars
    \/ MoveUnlink /\ UNCHANGED mainVars
    \/ Classify /\ UNCHANGED mainVars
    \/ Return /\ UNCHANGED mainVars

Next == BatchNext \/ ReviewNext

Spec == Init /\ [][Next]_vars

\* process_media alone, on a worker thread that is not starved: a call that
\* has a next step takes it.
SpecBatch == Init /\ [][BatchNext]_vars /\ WF_vars(BatchNext)

\* ------------------------------------------------------- a second run
\* process_media is called again with the same folders and options on the
\* file system the first run left: its locals start afresh (copier.py 201-210)
\* and its reports go to a new session folder.
RunAgain ==
    /\ pc = "returned"
    /\ first_run = NoRun
    /\ first_run' = [success_count |-> success_count,
                     duplicate_count |-> duplicate_count]
    /\ pc' = "start"
    /\ media_files' = <<>>
    /\ idx' = 0
    /\ date' = NoDate
    /\ result' = NoResult
    /\ success_count' = 0
    /\ image_count' = 0
    /\ video_count' = 0
    /\ duplicate_count' = 0
    /\ error_count' = 0
    /\ invalid_count' = 0
    /\ success_files' = <<>>
    /\ dup_list' = <<>>
    /\ errors' = <<>>
    /\ invalid_files' = <<>>
    /\ progress' = <<>>
    /\ fs0' = fs
    /\ log_dir' = NoPath
    /\ invalid_log_path' = NoPath
    /\ success_log_path' = NoPath
    /\ log_files' = <<>>
    /\ UNCHANGED <<fs, faults, dest_folder, move_files, check_binary, windowVars,
                   image, resolved, callVars>>

\* Two runs in Copy mode.
InitTwice == Init /\ ~move_files

\* The steps of a batch in Copy mode, and the second call.
NextTwice ==
    \/ Scan /\ UNCHANGED mainVars
    \/ Validate /\ UNCHANGED mainVars
    \/ ResolveDate /\ UNCHANGED mainVars
    \/ CopyFileCheck /\ UNCHANGED mainVars
    \/ CopyBegin /\ UNCHANGED mainVars
    \/ CopyEnd /\ UNCHANGED mainVars
    \/ Classify /\ UNCHANGED mainVars
    \/ Return /\ UNCHANGED mainVars
    \/ RunAgain /\ UNCHANGED mainVars

SpecTwice == InitTwice /\ [][NextTwice]_vars

\* ------------------------------------------------- the preview labels
\* _load_image_preview, called twice by _load_current_duplicate: the label
\* shows "Loading..." and a thread is started with the path and the current
\* index.  _show_completion puts its text into the labels instead.
Job(slot, path, target_index) ==
    [slot |-> slot, path |-> path, target_index |-> target_index, result |-> "running"]

LoadPreviews(dups, index) ==
    IF Completed(dups, index)
    THEN /\ labels' = [source |-> Label("completion", <<>>),
                       existing |-> Label("", <<>>)]
         /\ UNCHANGED pending
    ELSE LET dup == At(dups, index)
             jobs == {Job("source", dup.source, index),
                      Job("existing", dup.existing, index)}
         IN  /\ Cardinality(pending \cup jobs) <= MaxPending
             /\ pending' = pending \cup jobs
             /\ labels' = [source |-> Label("loading", dup.source),
                           existing |-> Label("loading", dup.existing)]

\* The handler reloads the view (called) or leaves the labels alone.
Reload(called) ==
    IF called
    THEN LoadPreviews(duplicates', current_index')
    ELSE UNCHANGED previewVars

\* _load_image_thread: a video gets the placeholder text, an image that
\* opens a photo, anything else the error text; the result is handed to the
\* main loop with window.after(0, ...).
LoadImageThread ==
    /\ Reviewing
    /\ \E job \in pending :
        /\ job.result = "running"
        /\ LET loaded == IF is_video_file(job.path)
                         THEN "placeholder"
                         ELSE IF Exists(fs, job.path) /\ fs[job.path].valid
                              THEN "photo"
                              ELSE "error"
           IN  pending' = (pending \ {job}) \cup {[job EXCEPT !.result = loaded]}
    /\ UNCHANGED <<fs, faults, frame, duplicates, current_index, marked_indices,
                   mark_delete_var, mark_check, replace_btn, process_btn,
                   operator_marked, last, labels>>

\* The callback of window.after: _update_image_ui for a photo, which returns
\* when target_index != self.current_index; label.config(...) for the
\* placeholder and the error text.
AfterCallback ==
    /\ Reviewing
    /\ \E job \in pending :
        /\ job.result # "running"
        /\ pending' = pending \ {job}
        /\ labels' = IF job.result = "photo" /\ job.target_index # current_index
                     THEN labels
                     ELSE [labels EXCEPT ![job.slot] = Label(job.result, job.path)]
    /\ UNCHANGED <<fs, faults, frame, duplicates, current_index, marked_indices,
                   mark_delete_var, mark_check, replace_btn, process_btn,
                   operator_marked, last>>

\* A batch in Copy mode into the source folder itself, over valid files of
\* one date that an earlier run has filed already; then the window.
InitPreview ==
    /\ Init
    /\ dest_folder = SourceRoot
    /\ ~move_files
    /\ ~check_binary
    /\ DOMAIN fs \subseteq DatedPaths(SourceRoot)
    /\ \A p \in DOMAIN fs :
         fs[p] = [data |-> 1, date |-> [year |-> 2024, month |-> 1, day |-> 15],
                  valid |-> TRUE]

NextPreview ==
    \/ Scan /\ UNCHANGED mainVars
    \/ Validate /\ UNCHANGED mainVars
    \/ ResolveDate /\ UNCHANGED mainVars
    \/ CopyFileCheck /\ UNCHANGED mainVars
    \/ CopyBegin /\ UNCHANGED mainVars
    \/ CopyEnd /\ UNCHANGED mainVars
    \/ Classify /\ UNCHANGED mainVars
    \/ Return /\ UNCHANGED mainVars
    \/ OpenReview /\ Reload(TRUE) /\ UNCHANGED mainVars
    \/ OnListSelect /\ Reload(TRUE)
    \/ OnPrev /\ Reload(current_index > 0)
    \/ OnNext /\ Reload(current_index < Len(duplicates) - 1)
    \/ OnMarkToggleCheckbox /\ Reload(FALSE)
    \/ OnMarkToggleKey /\ Reload(FALSE)
    \/ OnReplace /\ Reload(last'.count = 1)
    \/ OnProcessBatch /\ Reload(last'.count >= 0)
    \/ ExternalDelete /\ Reload(FALSE)
    \/ LoadImageThread
    \/ AfterCallback

SpecPreview == InitPreview /\ [][NextPreview]_vars

\* ------------------------------------- MainWindow: the worker and the poll
\* queue.Queue: put adds at the tail, get_nowait takes the head.
Message(type, data) == [type |-> type, data |-> data]

\* A put that adds at the head.
PutAtHead(q, m) == <<m>> \o q

Put(q, m) == Append(q, m)

\* _start_processing: refused while is_processing; else the start button is
\* disabled, is_processing set and the worker thread started.  One batch is
\* followed.
StartProcessing ==
    /\ ~is_processing
    /\ worker = "none"
    /\ pc = "start"
    /\ is_processing' = TRUE
    /\ start_btn' = "disabled"
    /\ worker' = "running"
    /\ UNCHANGED <<fs, faults, fs0, batchVars, windowVars, auxVars, progress_queue,
                   poller, results, sent, handled>>

Running == worker = "running"

\* _progress_callback: every call of progress_callback that a step of
\* process_media makes puts ('progress', (current, total, status)) on the
\* queue.  put on an unbounded queue does not raise, so the loop's except
\* clause never sees a callback error; an exception that leaves
\* process_media (pc' = "raised") has put nothing.
Puts ==
    LET calls == IF pc' = "raised"
                 THEN <<>>
                 ELSE SubSeq(progress', Len(progress) + 1, Len(progress'))
        first == IF calls = <<>>
                 THEN progress_queue
                 ELSE Put(progress_queue, Message("progress", calls[1]))
        all == IF Len(calls) < 2 THEN first ELSE Put(first, Message("progress", calls[2]))
    IN  /\ \A i \in DOMAIN errors' : errors'[i].error # CallbackError
        /\ progress_queue' = all
        /\ sent' = sent \o [k \in DOMAIN calls |-> Message("progress", calls[k])]
        /\ UNCHANGED <<is_processing, start_btn, worker, poller, results, handled>>

\* The dict process_media returns, as far as it is followed.
Results ==
    [success_count |-> success_count, duplicate_count |-> duplicate_count]

\* _worker_thread, process_media has returned: self.results = results;
\* self.progress_queue.put(('complete', results))
WorkerComplete ==
    /\ Running
    /\ pc = "returned"
    /\ results' = Results
    /\ progress_queue' = Put(progress_queue, Message("complete", Results))
    /\ sent' = Append(sent, Message("complete", Results))
    /\ worker' = "done"
    /\ UNCHANGED <<fs, faults, fs0, batchVars, windowVars, auxVars, is_processing,
                   start_btn, poller, handled>>

\* An except clause that only logs.
WorkerErrorLogged ==
    /\ Running
    /\ pc = "raised"
    /\ worker' = "done"
    /\ UNCHANGED <<fs, faults, fs0, batchVars, windowVars, auxVars, is_processing,
                   start_btn, poller, results, handled, progress_queue, sent>>

\* _worker_thread, process_media has raised: put(('error', str(e)))
WorkerError ==
    /\ Running
    /\ pc = "raised"
    /\ progress_queue' = Put(progress_queue, Message("error", CallbackError))
    /\ sent' = Append(sent, Message("error", CallbackError))
    /\ worker' = "done"
    /\ UNCHANGED <<fs, faults, fs0, batchVars, windowVars, auxVars, is_processing,
                   start_btn, poller, results, handled>>

\* The timer of root.after(100, self._check_queue) fires.
CheckQueue ==
    /\ poller = "scheduled"
    /\ poller' = "draining"
    /\ UNCHANGED <<fs, faults, fs0, batchVars, windowVars, auxVars, progress_queue,
                   is_processing, start_btn, worker, results, sent, handled>>

\* _check_queue, one turn of `while True`: get_nowait returns the head.
Get(type) ==
    /\ poller = "draining"
    /\ progress_queue # <<>>
    /\ Head(progress_queue).type = type
    /\ progress_queue' = Tail(progress_queue)
    /\ handled' = Append(handled, Head(progress_queue))
    /\ UNCHANGED <<poller, worker, results, sent>>

\* A poller that enables the start control on the first progress message.
GetProgressEnablesStart ==
    /\ Get("progress")
    /\ is_processing' = FALSE
    /\ start_btn' = "normal"
    /\ UNCHANGED <<fs, faults, fs0, batchVars, windowVars, auxVars>>

\* 'progress': the progress bar and the status label are set.
GetProgress ==
    /\ Get("progress")
    /\ UNCHANGED <<fs, faults, fs0, batchVars, windowVars, auxVars, is_processing,
                   start_btn>>

\* 'complete': _on_processing_complete.  With duplicates in the results the
\* operator is asked and the review window opened on results['duplicates'].
GetComplete ==
    /\ Get("complete")
    /\ is_processing' = FALSE
    /\ start_btn' = "normal"
    /\ \/ OpenReview /\ UNCHANGED previewVars
       \/ UNCHANGED <<fs, faults, fs0, batchVars, windowVars, auxVars>>

\* 'error': _on_processing_error
GetError ==
    /\ Get("error")
    /\ is_processing' = FALSE
    /\ start_btn' = "normal"
    /\ UNCHANGED <<fs, faults, fs0, batchVars, windowVars, auxVars>>

\* _check_queue: queue.Empty ends the loop and the next poll is scheduled.
GetEmpty ==
    /\ poller = "draining"
    /\ progress_queue = <<>>
    /\ poller' = "scheduled"
    /\ UNCHANGED <<fs, faults, fs0, batchVars, windowVars, auxVars, progress_queue,
                   is_processing, start_btn, worker, results, sent, handled>>

Poll == CheckQueue \/ GetProgress \/ GetComplete \/ GetError \/ GetEmpty

\* The window as main.py starts a batch (delete_duplicates is never
\* passed), into an empty destination tree outside the source folder; the
\* bytes of the files play no part.
InitQueue ==
    /\ Init
    /\ ~check_binary
    /\ dest_folder = <<"out">>
    /\ DOMAIN fs \subseteq SourcePaths
    /\ \A p \in DOMAIN fs : fs[p].data = 1

NextQueue ==
    \/ StartProcessing
    \/ Running /\ Scan /\ Puts
    \/ Running /\ Validate /\ Puts
    \/ Running /\ ResolveDate /\ Puts
    \/ Running /\ CopyFileCheck /\ Puts
    \/ Running /\ MoveRename /\ Puts
    \/ Running /\ CopyBegin /\ Puts
    \/ Running /\ CopyEnd /\ Puts
    \/ Running /\ MoveUnlink /\ Puts
    \/ Running /\ Classify /\ Puts
    \/ Running /\ Return /\ Puts
    \/ WorkerComplete
    \/ WorkerError
    \/ CheckQueue
    \/ GetProgress
    \/ GetComplete
    \/ GetError
    \/ GetEmpty

\* Tk's main loop runs the callbacks that are due, and the operator
\* answers the dialogs of a handler.
SpecQueue == InitQueue /\ [][NextQueue]_vars /\ WF_vars(Poll)

\* The steps of the worker thread, which the scheduler runs while it can run.
WorkerThread ==
    \/ /\ Running
       /\ Scan \/ Validate \/ ResolveDate \/ CopyFileCheck \/ MoveRename
             \/ CopyBegin \/ CopyEnd \/ MoveUnlink \/ Classify \/ Return
       /\ Puts
    \/ WorkerComplete
    \/ WorkerError

SpecWorker ==
    InitQueue /\ [][NextQueue]_vars /\ WF_vars(Poll) /\ WF_vars(WorkerThread)

\* _start_processing once more, after a batch whose results opened no review
\* window: the only test is is_processing; a new thread runs process_media
\* on the file system the first batch left.
StartAgain ==
    /\ ~is_processing
    /\ RunAgain
    /\ is_processing' = TRUE
    /\ start_btn' = "disabled"
    /\ worker' = "running"
    /\ UNCHANGED <<progress_queue, poller, results, sent, handled>>

\* Two batches started from the window, one after the other.
NextRestart == NextQueue \/ StartAgain

SpecRestart == InitQueue /\ [][NextRestart]_vars

\* ------------------------------------------- exif_reader: get_image_date
\* A string is the sequence of its characters.
RECURSIVE Chars(_, _)
Chars(n, w) ==
    IF w = 0 THEN <<>> ELSE Chars(n \div 10, w - 1) \o <<DigitStr(n % 10)>>

\* What a camera writes into a date tag: "YYYY:MM:DD HH:MM:SS".
ExifText(dt) ==
    Chars(dt.year, 4) \o <<":">> \o Chars(dt.month, 2) \o <<":">>
    \o Chars(dt.day, 2) \o <<" ">> \o Chars(dt.hour, 2) \o <<":">>
    \o Chars(dt.minute, 2) \o <<":">> \o Chars(dt.second, 2)

\* datetime.strptime(data_string, format) for a format of the directives
\* %Y %m %d %H %M %S, literal characters and blanks: a directive takes the
\* digits up to the next literal, %Y four of them and the others one or
\* two, within the directive's range; a blank takes one or more blanks;
\* nothing may remain; the fields must make a datetime.  ValueError is None.
strptime(data_string, format) ==
    LET Directives == {"%Y", "%m", "%d", "%H", "%M", "%S"}
        IsDigit(c) == \E d \in 0..9 : DigitStr(d) = c
        Val(c) == CHOOSE d \in 0..9 : DigitStr(d) = c
        RECURSIVE Run(_)
        Run(str) == IF str # <<>> /\ IsDigit(Head(str)) THEN 1 + Run(Tail(str)) ELSE 0
        RECURSIVE Blanks(_)
        Blanks(str) == IF str # <<>> /\ Head(str) = " " THEN 1 + Blanks(Tail(str)) ELSE 0
        RECURSIVE Number(_)
        Number(str) ==
            IF str = <<>>
            THEN 0
            ELSE 10 * Number(SubSeq(str, 1, Len(str) - 1)) + Val(str[Len(str)])
        Widths(t) == IF t = "%Y" THEN {4} ELSE {1, 2}
        Range(t) ==
            CASE t = "%Y" -> 0..9999
              [] t = "%m" -> 1..12
              [] t = "%d" -> 1..31
              [] t = "%H" -> 0..23
              [] t = "%M" -> 0..59
              [] t = "%S" -> 0..61
        Drop(str, n) == SubSeq(str, n + 1, Len(str))
        Failed == [t \in Directives |-> -1]
        RECURSIVE Match(_, _, _)
        Match(str, fmt, acc) ==
            IF fmt = <<>>
            THEN IF str = <<>> THEN acc ELSE Failed
            ELSE LET t == Head(fmt)
                 IN  IF t \in Directives
                     THEN LET n == Run(str)
                              v == Number(SubSeq(str, 1, n))
                          IN  IF n \in Widths(t) /\ v \in Range(t)
                              THEN Match(Drop(str, n), Tail(fmt), [acc EXCEPT ![t] = v])
                              ELSE Failed
                     ELSE IF t = " "
                     THEN IF Blanks(str) >= 1
                          THEN Match(Drop(str, Blanks(str)), Tail(fmt), acc)
                          ELSE Failed
                     ELSE IF str # <<>> /\ Head(str) = t
                          THEN Match(Tail(str), Tail(fmt), acc)
                          ELSE Failed
        found == Match(data_string, format,
                       [t \in Directives |->
                          IF t = "%Y" THEN 1900 ELSE IF t \in {"%m", "%d"} THEN 1 ELSE 0])
        leap == found["%Y"] % 4 = 0 /\ (found["%Y"] % 100 # 0 \/ found["%Y"] % 400 = 0)
        days == IF found["%m"] \in {4, 6, 9, 11}
                THEN 30
                ELSE IF found["%m"] = 2 THEN (IF leap THEN 29 ELSE 28) ELSE 31
    IN  IF found = Failed \/ found["%Y"] < 1 \/ found["%d"] > days \/ found["%S"] > 59
        THEN None
        ELSE datetime(found["%Y"], found["%m"], found["%d"],
                      found["%H"], found["%M"], found["%S"])

\* _parse_exif_datetime: "%Y:%m:%d %H:%M:%S", else "%Y:%m:%d", else None.
parse_exif_datetime(date_str) ==
    LET full == strptime(date_str, <<"%Y", ":", "%m", ":", "%d", " ",
                                     "%H", ":", "%M", ":", "%S">>)
    IN  IF full # None
        THEN full
        ELSE strptime(date_str, <<"%Y", ":", "%m", ":", "%d">>)

\* A chain that looks at the digitized date first.
TagOrderDigitizedFirst == <<DateTimeDigitized, DateTimeOriginal, DateTimeTag>>

\* _get_exif_date: the three tags in the order the code reads them.
TagOrder == <<DateTimeOriginal, DateTimeDigitized, DateTimeTag>>

\* _get_exif_date: exif_data.get(tag) is falsy for an absent tag and for an
\* empty string; the first truthy tag is parsed and the result returned.  A
\* file that does not open, or has no EXIF data, gives None.
get_exif_date(img) ==
    LET get(tag) == IF tag \in DOMAIN img.exif THEN img.exif[tag] ELSE <<>>
    IN  IF ~img.opens \/ DOMAIN img.exif = {}
        THEN None
        ELSE IF get(TagOrder[1]) # <<>>
        THEN parse_exif_datetime(get(TagOrder[1]))
        ELSE IF get(TagOrder[2]) # <<>>
        THEN parse_exif_datetime(get(TagOrder[2]))
        ELSE IF get(TagOrder[3]) # <<>>
        THEN parse_exif_datetime(get(TagOrder[3]))
        ELSE None

\* get_image_date: the EXIF date, else _get_file_modified_date (None when
\* os.path.getmtime fails).
get_image_date(img) ==
    LET exif_date == get_exif_date(img)
    IN  IF exif_date # None THEN exif_date ELSE img.mtime

\* The strings a date tag can hold: two dates, a date without a time, the
\* zeros of a camera without a clock, a day that does not exist, nothing.
TagValues ==
    {ExifText(datetime(2024, 1, 15, 10, 30, 0)),
     ExifText(datetime(2023, 6, 1, 8, 0, 0)),
     SubSeq(ExifText(datetime(2022, 12, 31, 0, 0, 0)), 1, 10),
     ExifText(None),
     ExifText(datetime(2023, 2, 30, 8, 0, 0)),
     <<>>}

Images ==
    LET Tags == {DateTimeOriginal, DateTimeDigitized, DateTimeTag}
        Mtimes == {None, datetime(2021, 3, 4, 5, 6, 7)}
    IN  UNION {{[opens |-> TRUE, exif |-> e, mtime |-> m] :
                  e \in [T -> TagValues], m \in Mtimes} : T \in SUBSET Tags}
        \cup {[opens |-> FALSE, exif |-> <<>>, mtime |-> m] : m \in Mtimes}

\* No batch is configured and there is no file.
NoBatch ==
    /\ dest_folder = <<"out">>
    /\ move_files = FALSE
    /\ check_binary = FALSE
    /\ fs = <<>>
    /\ Fresh

InitExif ==
    /\ image \in Images
    /\ resolved = Unresolved
    /\ call = NoCall
    /\ ret = <<>>
    /\ NoBatch

\* date = get_image_date(file_path)
GetImageDate ==
    /\ resolved = Unresolved
    /\ image # NoImage
    /\ resolved' = get_image_date(image)
    /\ UNCHANGED <<fs, faults, fs0, batchVars, windowVars, first_run, image,
                   logVars, callVars, mainVars>>

NextExif == GetImageDate

SpecExif == InitExif /\ [][NextExif]_vars

\* --------------------------------------------- utils: are_files_identical
\* A file as the comparison sees it: whether getsize and open work, and the
\* bytes.
ByteFiles ==
    {[readable |-> r, bytes |-> b] :
        r \in BOOLEAN, b \in UNION {[1..n -> {0, 1}] : n \in 0..MaxBytes}}

\* f.read(chunk_size) at position pos: up to chunk_size bytes, b'' at EOF.
Read(bytes, pos, chunk_size) ==
    SubSeq(bytes, pos + 1,
           IF pos + chunk_size <= Len(bytes) THEN pos + chunk_size ELSE Len(bytes))

\* A comparison that looks at the first chunk only.
CompareFirstChunk(bytes1, bytes2, pos1, pos2, chunk_size) ==
    Read(bytes1, pos1, chunk_size) = Read(bytes2, pos2, chunk_size)

\* The `while True` loop: False at the first pair of chunks that differ,
\* True when the first file is at EOF.
RECURSIVE CompareChunks(_, _, _, _, _)
CompareChunks(bytes1, bytes2, pos1, pos2, chunk_size) ==
    LET chunk1 == Read(bytes1, pos1, chunk_size)
        chunk2 == Read(bytes2, pos2, chunk_size)
    IN  IF chunk1 # chunk2
        THEN FALSE
        ELSE IF chunk1 = <<>>
             THEN TRUE
             ELSE CompareChunks(bytes1, bytes2, pos1 + Len(chunk1),
                                pos2 + Len(chunk2), chunk_size)

\* are_files_identical(path1, path2, chunk_size): the sizes first, then the
\* chunks; an OSError of getsize or open is False.
are_files_identical_chunked(file1, file2, chunk_size) ==
    IF ~file1.readable \/ ~file2.readable
    THEN FALSE
    ELSE IF Len(file1.bytes) # Len(file2.bytes)
         THEN FALSE
         ELSE CompareChunks(file1.bytes, file2.bytes, 0, 0, chunk_size)

IdenticalCalls ==
    {[fn |-> "are_files_identical", args |-> <<f1, f2, n>>] :
        f1 \in ByteFiles, f2 \in ByteFiles, n \in 1..MaxChunk}

\* The call returns.
AreFilesIdentical ==
    /\ call.fn = "are_files_identical"
    /\ ret = <<>>
    /\ ret' = <<are_files_identical_chunked(call.args[1], call.args[2], call.args[3])>>
    /\ UNCHANGED <<fs, faults, fs0, batchVars, windowVars, first_run, image,
                   resolved, logVars, call, mainVars>>

\* ------------------------------------------- copier: the destination path
\* copy_file(source_path, dest_base, date, ...) for sources in several
\* folders, roots of several depths and datetimes whose fields have one
\* digit or more.
PathCalls ==
    {[fn |-> "copy_file", args |-> <<src, root, datetime(y, mo, d, h, 0, 0)>>] :
        src \in SourcePaths \cup {<<"b.mp4">>},
        root \in {<<"out">>, <<"src">>, <<"out", "deep">>},
        y \in {5, 987, 2024}, mo \in {1, 12}, d \in {1, 9, 10, 31}, h \in {0, 23}}

\* copy_file up to line 40: dest_path has been computed.
CopyFilePath ==
    /\ call.fn = "copy_file"
    /\ ret = <<>>
    /\ ret' = <<DestPath(call.args[1], call.args[2], call.args[3])>>
    /\ UNCHANGED <<fs, faults, fs0, batchVars, windowVars, first_run, image,
                   resolved, logVars, call, mainVars>>

\* ------------------------------------- scanner: unreadable directories
\* os.walk(top) with onerror left at None: a directory whose listing fails
\* is left out with everything below it, and the error is dropped; nothing
\* is raised to the caller.
os_walk(files, unreadable) ==
    [listed |-> {p \in files :
                   \A k \in 1..(Len(p) - 1) : SubSeq(p, 1, k) \notin unreadable},
     raised |-> {}]

\* scan_folder: the matching files that os.walk lists, and what its except
\* clauses log: the errors os.walk raises.
scan_folder_walk(files, unreadable) ==
    LET walk == os_walk(files, unreadable)
    IN  {[yielded |-> order, logged |-> walk.raised] :
            order \in ScanOrders({p \in walk.listed : basename(p) \in Names})}

\* scan_folder(folder_path) over a root with two subfolders, each of them
\* readable or not.
ScanCalls ==
    {[fn |-> "scan_folder", args |-> <<files, unreadable>>] :
        files \in SUBSET {<<"src", "a.jpg">>, <<"src", "b.mp4">>,
                          <<"src", "notes.txt">>, <<"src", "sub", "a.jpg">>,
                          <<"src", "locked", "b.mp4">>},
        unreadable \in SUBSET {<<"src", "sub">>, <<"src", "locked">>}}

\* list(scan_folder(source_folder))
ScanFolder ==
    /\ call.fn = "scan_folder"
    /\ ret = <<>>
    /\ \E scanned \in scan_folder_walk(call.args[1], call.args[2]) :
         ret' = <<scanned>>
    /\ UNCHANGED <<fs, faults, fs0, batchVars, windowVars, first_run, image,
                   resolved, logVars, call, mainVars>>

\* ------------------------------------------------------- validate_media
\* How a function ends: it returns a value or an exception leaves it.
Returned(value) == [raised |-> "", value |-> value]
Raised(exception) == [raised |-> exception, value |-> <<>>]

\* A validate_video without except clauses.
VideoExceptNone(exception) == Raised(exception)

\* validate_video, the except clauses: FileNotFoundError, JSONDecodeError,
\* Exception.
VideoExcept(exception) ==
    CASE exception = "FileNotFoundError" ->
           Returned(<<FALSE, "FFmpeg/ffprobe not installed or not in PATH">>)
      [] exception = "JSONDecodeError" ->
           Returned(<<FALSE, "Error parsing video metadata: Expecting value">>)
      [] OTHER ->
           Returned(<<FALSE, "Error validating video: " \o exception_str(exception)>>)

\* validate_video: subprocess.run raises FileNotFoundError without ffprobe,
\* or another OSError; a return code other than 0, output that is not
\* JSON, and an empty list of streams are failures; otherwise (True, None).
validate_video(probe) ==
    LET body ==
          CASE probe = "absent" -> Raised("FileNotFoundError")
            [] probe = "os_error" -> Raised("PermissionError")
            [] probe = "invalid" ->
                 Returned(<<FALSE, "Invalid video file: moov atom not found">>)
            [] probe = "bad_json" -> Raised("JSONDecodeError")
            [] probe = "no_stream" -> Returned(<<FALSE, "No video stream found in file">>)
            [] probe = "streams" -> Returned(<<TRUE, "">>)
    IN  IF body.raised # "" THEN VideoExcept(body.raised) ELSE body

\* validate_image: Image.open and verify; any exception is
\* (False, "Cannot identify image: ...").
validate_image(pil) ==
    IF pil = "image"
    THEN Returned(<<TRUE, "">>)
    ELSE Returned(<<FALSE, "Cannot identify image: cannot identify image file">>)

validate_media(file_path, probe, pil) ==
    IF is_video_file(file_path) THEN validate_video(probe) ELSE validate_image(pil)

\* The file, what ffprobe does with it, and what PIL does with it.
ValidateCalls ==
    {[fn |-> "validate_media", args |-> <<path, probe, pil>>] :
        path \in {<<"src", "a.jpg">>, <<"src", "b.mp4">>},
        probe \in {"absent", "os_error", "invalid", "bad_json", "no_stream", "streams"},
        pil \in {"unidentified", "image"}}

\* is_valid, error_msg = validate_media(source_path)
ValidateMedia ==
    /\ call.fn = "validate_media"
    /\ ret = <<>>
    /\ ret' = <<validate_media(call.args[1], call.args[2], call.args[3])>>
    /\ UNCHANGED <<fs, faults, fs0, batchVars, windowVars, first_run, image,
                   resolved, logVars, call, mainVars>>

\* ------------------------------------------------- functions on their own
InitCalls ==
    /\ \/ call \in IdenticalCalls
       \/ call \in PathCalls
       \/ call \in ScanCalls
       \/ call \in ValidateCalls
    /\ ret = <<>>
    /\ image = NoImage
    /\ resolved = Unresolved
    /\ NoBatch

NextCalls ==
    \/ AreFilesIdentical
    \/ CopyFilePath
    \/ ScanFolder
    \/ ValidateMedia

SpecCalls == InitCalls /\ [][NextCalls]_vars

\* ======================================================================
\* Properties
\* ======================================================================
InBatch == pc \notin {"start", "raised", "review"}

Sources(list) == {list[i].source : i \in DOMAIN list}

\* The destination path copy_file derives for the k-th scanned file: the
\* file is read as the scan found it.
Transferable(k) ==
    /\ fs0[media_files[k]].valid
    /\ fs0[media_files[k]].date # NoDate
Derived(k) == DestPath(media_files[k], dest_folder, fs0[media_files[k]].date)

\* The k-th file has been through copy_file.
Transferred(k) == k < idx \/ (k = idx /\ pc = "classify")

Gone == (DOMAIN fs) \ (DOMAIN fs')

\* ---------------------------------------------------------------- C1
\* C1: what _on_process_batch deletes are sources of records the operator
\* marked, and after a completed run every such source is deleted or its
\* record is still listed; no record that was never marked loses its source.
C1_DeletesOnlyOperatorMarked ==
    [][(Reviewing /\ last'.op = "process_batch")
          => /\ Gone \subseteq operator_marked
             /\ (last'.confirmed /\ ~last'.raised)
                   => \A p \in operator_marked :
                        p \notin DOMAIN fs' \/ p \in Sources(duplicates')]_vars

\* ---------------------------------------------------------------- C2
\* C2: every marked index is a position of the working list.
C2_MarksAreValidIndices ==
    Reviewing => \A i \in marked_indices : 0 <= i /\ i < Len(duplicates)

\* ---------------------------------------------------------------- C3
\* C3 as stated: of two scanned files with the same derived destination
\* path, the second gets the Duplicate outcome and keeps its source, and the
\* destination written for the first holds the first file's content.
C3_SecondIsDuplicate ==
    InBatch =>
      \A i, j \in DOMAIN media_files :
        (i < j /\ Transferable(i) /\ Transferable(j) /\ Derived(i) = Derived(j)
         /\ j = idx /\ pc = "classify")
          => /\ result.is_duplicate
             /\ ~result.success
             /\ Exists(fs, media_files[j])
             /\ fs[media_files[j]] = fs0[media_files[j]]
             /\ media_files[i] \in Sources(success_files)
                   => /\ Exists(fs, Derived(i))
                      /\ fs[Derived(i)] = fs0[media_files[i]]

\* C3, amended: the same, for a first file whose transfer succeeded (it is
\* in success_files); its destination keeps its content to the end of the
\* batch and the second file never becomes a success.
C3_SecondIsDuplicateAfterSuccess ==
    InBatch =>
      \A i, j \in DOMAIN media_files :
        (i < j /\ Transferable(i) /\ Transferable(j) /\ Derived(i) = Derived(j)
         /\ media_files[i] \in Sources(success_files) /\ Transferred(j))
          => /\ (j = idx /\ pc = "classify")
                   => (result.is_duplicate /\ ~result.success
                       /\ result.dest_path = Derived(i))
             /\ media_files[j] \notin Sources(success_files)
             /\ Exists(fs, media_files[j])
             /\ fs[media_files[j]] = fs0[media_files[j]]
             /\ Exists(fs, Derived(i))
             /\ fs[Derived(i)] = fs0[media_files[i]]

\* Both modes: a second file found Duplicate against the first one's copy,
\* the two contents differing.
C3_Witness ==
    /\ pc = "classify"
    /\ idx = 2
    /\ result.is_duplicate
    /\ Transferable(1)
    /\ Derived(1) = result.dest_path
    /\ media_files[1] \in Sources(success_files)
    /\ fs0[media_files[1]].data # fs0[media_files[2]].data

\* ---------------------------------------------------------------- C4
\* C4: _on_process_batch deletes only paths recorded as the source of a
\* marked record, and never a file that is the existing file of a record.
C4_DeletesSourcesNeverExisting ==
    [][(Reviewing /\ last'.op = "process_batch")
          => \A p \in Gone :
               /\ \E i \in marked_indices :
                    i < Len(duplicates) /\ At(duplicates, i).source = p
               /\ \A i \in DOMAIN duplicates : duplicates[i].existing # p]_vars

\* ---------------------------------------------------------------- C5
\* C5: in Move mode the content of every scanned file is at its source path
\* or at its destination path, in every state of the batch; a transfer that
\* returned an error left the source in place.
C5_NoDataLossOnMove ==
    (InBatch /\ move_files) =>
      /\ \A k \in DOMAIN media_files :
           \/ /\ Exists(fs, media_files[k])
              /\ fs[media_files[k]] = fs0[media_files[k]]
           \/ /\ Transferable(k)
              /\ Exists(fs, Derived(k))
              /\ fs[Derived(k)] = fs0[media_files[k]]
      /\ (pc = "classify" /\ ~result.success)
           => /\ Exists(fs, source_path)
              /\ fs[source_path] = fs0[source_path]

\* A move that fell back to copy + unlink and whose copy failed part-way.
C5_Witness ==
    /\ pc = "classify"
    /\ move_files
    /\ result.error # ""
    /\ Exists(fs, dest_path)
    /\ fs[dest_path] = PartialFile
    /\ Exists(fs, source_path)

\* ---------------------------------------------------------------- C6
\* C6: when copy_file returns in Move mode, success means the source is gone
\* and the destination holds its content; Duplicate means the source is
\* still there, unchanged.
C6_MoveOutcome ==
    (pc = "classify" /\ move_files) =>
      /\ result.success
           => /\ ~Exists(fs, source_path)
              /\ Exists(fs, result.dest_path)
              /\ fs[result.dest_path] = fs0[source_path]
      /\ result.is_duplicate
           => /\ Exists(fs, source_path)
              /\ fs[source_path] = fs0[source_path]

\* A batch in Move mode that moved its first file and found the second a
\* duplicate.
C6_Witness ==
    /\ pc = "classify"
    /\ move_files
    /\ idx = 2
    /\ result.is_duplicate
    /\ success_count = 1
    /\ ~Exists(fs, media_files[1])

\* ---------------------------------------------------------------- C7
Occurrences(p) ==
    Cardinality({i \in DOMAIN success_files : success_files[i].source = p})
    + Cardinality({i \in DOMAIN dup_list : dup_list[i].source = p})
    + Cardinality({i \in DOMAIN errors : errors[i].source = p})
    + Cardinality({i \in DOMAIN invalid_files : invalid_files[i].source = p})

\* C7: when process_media returns, every scanned file is in exactly one of
\* the four lists and the four counts add up to the number of scanned files.
C7_ExactlyOneOutcome ==
    pc = "returned" =>
      /\ \A k \in DOMAIN media_files : Occurrences(media_files[k]) = 1
      /\ success_count + duplicate_count + error_count + invalid_count
           = Len(media_files)

\* ---------------------------------------------------------------- C8
\* C8: in a confirmed _on_process_batch a marked record leaves the list
\* exactly when its source file was deleted, and the announced count is the
\* number of files deleted; when the handler raises, nothing was deleted.
C8_RemovedIffDeleted ==
    [][(Reviewing /\ last'.op = "process_batch" /\ last'.confirmed)
          => /\ \A i \in marked_indices :
                  i < Len(duplicates)
                    => ((At(duplicates, i) \notin SeqToSet(duplicates'))
                          <=> (At(duplicates, i).source \in Gone))
             /\ ~last'.raised => last'.count = Cardinality(Gone)
             /\ last'.raised => Gone = {}]_vars

\* Two records marked, one deletion failed: count 1, one record kept.
C8_Witness ==
    /\ Reviewing
    /\ last.op = "process_batch"
    /\ last.confirmed
    /\ last.asked = 2
    /\ last.count = 1
    /\ Len(duplicates) = 1

\* ---------------------------------------------------------------- C9
\* C9: after a confirmed _on_process_batch with a non-empty mark set the
\* mark set is empty.
C9_MarksClearedAfterCommit ==
    (Reviewing /\ last.op = "process_batch" /\ last.confirmed /\ last.asked > 0)
      => marked_indices = {}

\* ---------------------------------------------------------------- C10
\* C10: with an empty working list, a toggle, a replace or a batch delete
\* raises nothing and changes neither the list, the mark set nor a file.
C10_NoOpWhenCompleted ==
    [][(Reviewing /\ duplicates = <<>>
        /\ last'.op \in {"toggle_checkbox", "toggle_key", "replace", "process_batch"})
          => /\ ~last'.raised
             /\ duplicates' = duplicates
             /\ marked_indices' = marked_indices
             /\ fs' = fs]_vars

\* ---------------------------------------------------------------- C12
\* C12: every _on_mark_toggle, from the checkbox or from a key, flips the
\* membership of the current index in the mark set and changes neither the
\* list, the current index nor a file.
C12_ToggleFlipsMembership ==
    [][(Reviewing /\ last'.op \in {"toggle_checkbox", "toggle_key"})
          => /\ (current_index \in marked_indices')
                   <=> (current_index \notin marked_indices)
             /\ marked_indices' \ {current_index} = marked_indices \ {current_index}
             /\ duplicates' = duplicates
             /\ current_index' = current_index
             /\ fs' = fs]_vars

\* ---------------------------------------------------------------- C13
\* C13: _on_list_select, _on_next and _on_prev change neither the list, the
\* mark set nor a file; afterwards the current index is a position of the
\* (non-empty) list; next at the last record and prev at the first leave the
\* index where it was.
C13_NavigationStaysInBounds ==
    [][(Reviewing /\ last'.op \in {"select", "next", "prev"})
          => /\ duplicates' = duplicates
             /\ marked_indices' = marked_indices
             /\ fs' = fs
             /\ duplicates # <<>>
                   => (0 <= current_index' /\ current_index' < Len(duplicates))
             /\ (last'.op = "next" /\ current_index = Len(duplicates) - 1)
                   => current_index' = current_index
             /\ (last'.op = "prev" /\ current_index = 0)
                   => current_index' = current_index]_vars

C15_UnverifiedIsUnknown ==
    (pc = "classify" /\ result.is_duplicate) =>
      /\ ~check_binary
           => match_label(result.is_identical)
                \notin {match_label(TRUE), match_label(FALSE)}
      /\ check_binary
           => result.is_identical
                = are_files_identical(fs, source_path, result.dest_path)

\* ---------------------------------------------------------------- C19
\* C19: the first call of the progress callback is (0, total); every later
\* call is for a file whose position is a multiple of ProgressEvery or the
\* last one, and no file gets two calls.
C19_ProgressCadence ==
    (InBatch /\ progress # <<>>) =>
      /\ progress[1] = Call(0, total_files)
      /\ \A k \in 2..Len(progress) :
           /\ progress[k].total = total_files
           /\ progress[k].current \in 1..total_files
           /\ \/ progress[k].current % ProgressEvery = 0
              \/ progress[k].current = total_files
      /\ \A k, l \in 2..Len(progress) :
           k # l => progress[k].current # progress[l].current

\* ---------------------------------------------------------------- C20
\* C20: once the loop has gone through the last of at least one scanned
\* file, the progress callback has been called with current = total.
C20_FinalFileReported ==
    (pc \in {"file", "returned"} /\ idx > total_files /\ total_files >= 1)
      => \E k \in 2..Len(progress) : progress[k] = Call(total_files, total_files)

\* A batch that returned after a last file that was skipped: invalid, or
\* without a date.
C20_Witness ==
    /\ pc = "returned"
    /\ total_files = 2
    /\ success_count = 1
    /\ \/ invalid_files # <<>>
          /\ invalid_files[Len(invalid_files)].source = media_files[total_files]
       \/ errors # <<>>
          /\ errors[Len(errors)] =
               ErrorRecord(media_files[total_files], "Could not extract date")
    /\ progress[Len(progress)] = Call(total_files, total_files)

\* ---------------------------------------------------------------- C18
\* The destination tree is outside the source folder, so that the first run
\* leaves the source folder as it found it.
SourceUnchanged == ~IsPrefix(SourceRoot, dest_folder)

\* The second run has returned and nothing failed in either run.
SecondRunReturned == pc = "returned" /\ first_run # NoRun /\ faults = 0

\* C18 as stated: the second run in Copy mode over the unchanged source
\* reports no success and as many duplicates as the first run had successes.
C18_SecondRunDuplicates ==
    (SecondRunReturned /\ SourceUnchanged)
      => /\ success_count = 0
         /\ duplicate_count = first_run.success_count

\* C18, amended: the second run reports no success and as many duplicates
\* as the first run had successes and duplicates together.
C18_SecondRunDuplicatesAll ==
    (SecondRunReturned /\ SourceUnchanged)
      => /\ success_count = 0
         /\ duplicate_count = first_run.success_count + first_run.duplicate_count

\* Two files with the same destination path: one copy and one duplicate in
\* the first run, two duplicates in the second.
C18_Witness ==
    /\ SecondRunReturned
    /\ SourceUnchanged
    /\ first_run.success_count = 1
    /\ first_run.duplicate_count = 1
    /\ duplicate_count = 2

\* ---------------------------------------------------------------- C16
\* The date of the first of the three tags, in the order original-capture,
\* digitized, generic, that is present and parses; without one, the
\* modification time.
FirstParseable(img) ==
    LET parsed(tag) == IF tag \in DOMAIN img.exif
                       THEN parse_exif_datetime(img.exif[tag])
                       ELSE None
    IN  IF parsed(DateTimeOriginal) # None
        THEN parsed(DateTimeOriginal)
        ELSE IF parsed(DateTimeDigitized) # None
        THEN parsed(DateTimeDigitized)
        ELSE IF parsed(DateTimeTag) # None
        THEN parsed(DateTimeTag)
        ELSE img.mtime

\* C16: get_image_date returns the first source of the chain that is
\* present and parses; a tag that does not parse counts as absent.
C16_UnparseableCountsAsAbsent ==
    (resolved # Unresolved /\ image.opens) => resolved = FirstParseable(image)

\* ---------------------------------------------------------------- C17
BothTagsDiffer ==
    /\ resolved # Unresolved
    /\ image.opens
    /\ {DateTimeOriginal, DateTimeDigitized} \subseteq DOMAIN image.exif
    /\ image.exif[DateTimeOriginal] # image.exif[DateTimeDigitized]

\* C17 as stated: with an original-capture tag and a digitized tag of
\* different values, get_image_date returns the original-capture date.
C17_OriginalWins ==
    BothTagsDiffer
      => /\ resolved # None
         /\ resolved = parse_exif_datetime(image.exif[DateTimeOriginal])

\* C17, amended: the same, for an original-capture tag that parses.
C17_ParseableOriginalWins ==
    (BothTagsDiffer /\ parse_exif_datetime(image.exif[DateTimeOriginal]) # None)
      => resolved = parse_exif_datetime(image.exif[DateTimeOriginal])

\* Both tags parse, to different dates.
C17_Witness ==
    /\ BothTagsDiffer
    /\ parse_exif_datetime(image.exif[DateTimeOriginal]) # None
    /\ parse_exif_datetime(image.exif[DateTimeDigitized]) # None
    /\ parse_exif_datetime(image.exif[DateTimeDigitized])
         # parse_exif_datetime(image.exif[DateTimeOriginal])
    /\ resolved = datetime(2024, 1, 15, 10, 30, 0)

\* ---------------------------------------------------------------- C11
\* C11: a label shows a preview result (photo, placeholder or error text)
\* only of the file that the focused record has in that slot; with no record
\* focused it shows none.
C11_PreviewOfFocusedRecord ==
    Reviewing =>
      \A slot \in {"source", "existing"} :
        labels[slot].kind \in {"photo", "placeholder", "error"}
          => /\ ~Completed(duplicates, current_index)
             /\ labels[slot].path = At(duplicates, current_index)[slot]

\* ---------------------------------------------------------------- C21
\* C21: when process_media returns with a log directory supplied, a
\* non-empty invalid_files has its report written, with one record per
\* invalid file, and invalid_log_path is its path; likewise success_files,
\* the success report and success_log_path.
C21_ReportsWritten ==
    (pc = "returned" /\ log_dir # NoPath) =>
      /\ invalid_files # <<>>
           => /\ invalid_log_path # NoPath
              /\ Exists(log_files, invalid_log_path)
              /\ log_files[invalid_log_path].records = invalid_files
      /\ success_files # <<>>
           => /\ success_log_path # NoPath
              /\ Exists(log_files, success_log_path)
              /\ log_files[success_log_path].records = success_files

\* ---------------------------------------------------------------- C22
\* The positions of the batch inside copy_file.
InCopyFile ==
    pc \in {"transfer", "move", "move_copy", "copy", "copying", "move_copying",
            "move_unlink"}

StartsWith(text, prefix) ==
    Len(text) >= Len(prefix) /\ SubSeq(text, 1, Len(prefix)) = prefix

\* C22: a step of copy_file stays in copy_file or returns to the loop; a
\* step in which an I/O call fails returns; and a return after an exception
\* carries success = False, is_duplicate = False and an error string that
\* starts with "Permission denied" exactly for a PermissionError.
C22_FailuresAreOutcomes ==
    [][InCopyFile
         => /\ InCopyFile' \/ pc' = "classify"
            /\ faults' # faults => (pc' = "classify" /\ result'.caught \in ErrorKinds)
            /\ (pc' = "classify" /\ result'.caught # "")
                 => /\ ~result'.success
                    /\ ~result'.is_duplicate
                    /\ result'.error # ""
                    /\ StartsWith(result'.error, "Permission denied")
                         <=> result'.caught = "PermissionError"]_vars

\* A move that copied the file and was then refused the removal of the
\* source.
C22_Witness ==
    /\ pc = "classify"
    /\ move_files
    /\ result.caught = "PermissionError"
    /\ StartsWith(result.error, "Permission denied")
    /\ Exists(fs, source_path)
    /\ Exists(fs, dest_path)
    /\ fs[dest_path] = fs[source_path]

\* ---------------------------------------------------------------- C23
\* Some file of the running batch was invalid, had no date, failed in
\* copy_file or met an unexpected exception.
FileFailed == InBatch /\ error_count + invalid_count > 0

\* process_media has returned, its loop went past the last file and every
\* scanned file is recorded in one of the lists.
ReturnedAll ==
    /\ pc = "returned"
    /\ idx = total_files + 1
    /\ \A k \in DOMAIN media_files : Occurrences(media_files[k]) >= 1

\* C23: a batch in which a file has failed goes on to process every file
\* after it and returns.
C23_FailureDoesNotStopBatch == FileFailed ~> ReturnedAll

\* The first of two files failed in copy_file and the second was copied.
C23_Witness ==
    /\ pc = "returned"
    /\ total_files = 2
    /\ Len(errors) = 1
    /\ errors[1].source = media_files[1]
    /\ errors[1].error = ErrorText("OSError")
    /\ success_count = 1
    /\ success_files[1].source = media_files[2]

\* ---------------------------------------------------------------- C24
\* The place of a scanned file in the scan order.
ScanPosition(p) == CHOOSE k \in DOMAIN media_files : media_files[k] = p

InScanOrder(list) ==
    \A m, n \in DOMAIN list :
        ScanPosition(list[m].source) < ScanPosition(list[n].source) => m < n

\* C24: in each of success_files, duplicates, errors and invalid_files a
\* file scanned before another one comes before it.
C24_ListsInScanOrder ==
    InBatch =>
      /\ InScanOrder(success_files)
      /\ InScanOrder(dup_list)
      /\ InScanOrder(errors)
      /\ InScanOrder(invalid_files)

\* Two files without a date, both in errors, and nothing else failed.
C24_Witness ==
    /\ pc = "returned"
    /\ faults = 0
    /\ Len(errors) = 2
    /\ errors[1] = ErrorRecord(media_files[1], "Could not extract date")
    /\ errors[2] = ErrorRecord(media_files[2], "Could not extract date")

\* ---------------------------------------------------------------- C25
\* The most messages one batch puts on the queue: the first call, two calls
\* per file and the terminal message.
MaxMessages == 2 * MaxFiles + 2

IsPrefixOf(s, t) == Len(s) <= Len(t) /\ SubSeq(t, 1, Len(s)) = s

\* A step of the worker thread.
WorkerStep == Running /\ (pc' # pc \/ idx' # idx \/ worker' # worker)

\* C25: a step of the worker changes nothing the interactive thread reads
\* but the queue; a poll that is draining can go on whatever the worker
\* does; the messages handled are the messages put, in the order of the
\* puts; every message put is handled in the end; and after every drain
\* the next poll is scheduled.
C25_QueueDrainedInOrder ==
    /\ [][WorkerStep => UNCHANGED <<is_processing, start_btn, poller, handled,
                                    windowVars>>]_vars
    /\ [](poller = "draining"
            => ENABLED (GetProgress \/ GetComplete \/ GetError \/ GetEmpty))
    /\ [](IsPrefixOf(handled, sent) /\ handled \o progress_queue = sent)
    /\ \A n \in 1..MaxMessages : (Len(sent) >= n) ~> (Len(handled) >= n)
    /\ (poller = "draining") ~> (poller = "scheduled")

\* The start call, the skip calls of two invalid files, the final call and
\* the terminal message: all handled, in the order they were put.
C25_Witness ==
    /\ worker = "done"
    /\ Len(sent) = 5
    /\ handled = sent
    /\ progress_queue = <<>>
    /\ handled[4] = Message("progress", Call(2, 2))
    /\ handled[5].type = "complete"
    /\ poller = "scheduled"

\* ---------------------------------------------------------------- C26
\* C26: are_files_identical returns True exactly when both files can be
\* read and hold the same bytes, whatever the chunk size.
C26_IdenticalIffSameBytes ==
    (call.fn = "are_files_identical" /\ ret # <<>>) =>
      ret[1] = (/\ call.args[1].readable
                /\ call.args[2].readable
                /\ call.args[1].bytes = call.args[2].bytes)

\* Two files of the same size that differ in their last byte only,
\* compared in chunks that end before it.
C26_Witness ==
    /\ call.fn = "are_files_identical"
    /\ ret = <<FALSE>>
    /\ call.args[1].readable
    /\ call.args[2].readable
    /\ call.args[3] = 2
    /\ call.args[1].bytes = <<1, 0, 1>>
    /\ call.args[2].bytes = <<1, 0, 0>>

\* ---------------------------------------------------------------- C27
\* The number a string of decimal digits stands for.
RECURSIVE DecimalValue(_)
DecimalValue(text) ==
    IF text = ""
    THEN 0
    ELSE 10 * DecimalValue(SubSeq(text, 1, Len(text) - 1))
         + (CHOOSE d \in 0..9 : DigitStr(d) = SubSeq(text, Len(text), Len(text)))

\* C27: the path is the root followed by a year segment of four digits, a
\* month and a day segment of two digits each, that stand for the year,
\* month and day of the date, and the basename of the source: nothing else
\* of the source path or of the date enters; and with another day the path
\* differs in the day segment and nowhere else.
C27_PathFromDateAndName ==
    (call.fn = "copy_file" /\ ret # <<>>) =>
      LET source == call.args[1]
          root == call.args[2]
          when == call.args[3]
          path == ret[1]
          n == Len(root)
      IN  /\ Len(path) = n + 4
          /\ SubSeq(path, 1, n) = root
          /\ Len(path[n + 1]) = 4 /\ DecimalValue(path[n + 1]) = when.year
          /\ Len(path[n + 2]) = 2 /\ DecimalValue(path[n + 2]) = when.month
          /\ Len(path[n + 3]) = 2 /\ DecimalValue(path[n + 3]) = when.day
          /\ path[n + 4] = source[Len(source)]
          /\ \A other \in PathCalls :
                (/\ other.args[2] = root
                 /\ basename(other.args[1]) = basename(source)
                 /\ other.args[3].year = when.year
                 /\ other.args[3].month = when.month)
                  => LET path2 == DestPath(other.args[1], other.args[2], other.args[3])
                     IN  /\ Len(path2) = Len(path)
                         /\ \A k \in 1..Len(path) : k # n + 3 => path2[k] = path[k]
                         /\ (path2[n + 3] = path[n + 3])
                              <=> (other.args[3].day = when.day)

\* A file of a subfolder, a year of three digits and a day of one.
C27_Witness ==
    /\ call.fn = "copy_file"
    /\ call.args[1] = <<"src", "sub", "a.jpg">>
    /\ call.args[3].hour = 23
    /\ ret = <<<<"out", "deep", "0987", "12", "09", "a.jpg">>>>

\* ---------------------------------------------------------------- C28
\* C28: with subfolders that cannot be read, scan_folder yields every
\* matching file of the folders that can, and logs each folder it skipped.
C28_UnreadableSkippedAndLogged ==
    (call.fn = "scan_folder" /\ ret # <<>>) =>
      LET files == call.args[1]
          unreadable == call.args[2]
      IN  /\ SeqToSet(ret[1].yielded) =
                {p \in files : basename(p) \in Names /\ dirname(p) \notin unreadable}
          /\ ret[1].logged = unreadable

\* ---------------------------------------------------------------- C29
\* C29: validate_media changes no file and raises nothing; it returns True
\* exactly for a video with a stream and for an image PIL accepts, and
\* False with a reason for everything else; the reason given without
\* ffprobe is not the reason of a corrupt or of a stream-less video.
C29_ValidateNeverRaises ==
    /\ [][call.fn = "validate_media" => (fs' = fs /\ log_files' = log_files)]_vars
    /\ []((call.fn = "validate_media" /\ ret # <<>>) =>
            LET path == call.args[1]
                probe == call.args[2]
                pil == call.args[3]
            IN  /\ ret[1].raised = ""
                /\ ret[1].value[1] =
                     IF is_video_file(path) THEN probe = "streams" ELSE pil = "image"
                /\ ~ret[1].value[1] => ret[1].value[2] # ""
                /\ (is_video_file(path) /\ probe = "absent")
                     => \A other \in {"invalid", "no_stream"} :
                          ret[1].value[2] # validate_video(other).value[2])

\* A video validated on a machine without ffprobe.
C29_Witness ==
    /\ call.fn = "validate_media"
    /\ is_video_file(call.args[1])
    /\ call.args[2] = "absent"
    /\ ret = <<Returned(<<FALSE, "FFmpeg/ffprobe not installed or not in PATH">>)>>

\* ---------------------------------------------------------------- C30
\* C30: once process_media has returned, neither opening the review window
\* nor any of its handlers (replace, processing the marked rows, the
\* others) changes the duplicates list of the returned result: its length,
\* order and records stay as returned.
C30_ResultListUntouched ==
    [][(pc = "returned" \/ pc = "review")
         => ResultsDuplicates' = ResultsDuplicates]_vars

\* The window has removed a record from its own list after a replace or
\* after deleting marked sources, and the result still holds every record.
C30_Witness ==
    /\ Reviewing
    /\ last.op \in {"replace", "process_batch"}
    /\ Len(duplicates) < Len(ResultsDuplicates)
    /\ \A i \in DOMAIN duplicates :
          \E j \in DOMAIN ResultsDuplicates : duplicates[i] = ResultsDuplicates[j]

\* ---------------------------------------------------------------- C31
\* Neither the embedded sources nor the modification time give a date.
Unresolvable(f, path) == ~Exists(f, path) \/ f[path].date = NoDate

\* C31: a file whose date cannot be resolved at all gets one more record in
\* errors, naming it, and error_count goes up by one; the batch goes on to
\* the next file without entering copy_file and without touching the file
\* system.
C31_UnresolvedDateIsError ==
    /\ [][(pc = "date" /\ Unresolvable(fs, source_path))
           => LET src == media_files[idx]
              IN  /\ error_count' = error_count + 1
                  /\ Len(errors') = Len(errors) + 1
                  /\ SubSeq(errors', 1, Len(errors)) = errors
                  /\ errors'[Len(errors')].source = src
                  /\ pc' = "file"
                  /\ idx' = idx + 1
                  /\ fs' = fs]_vars
    /\ [](InCopyFile => ~Unresolvable(fs0, source_path))

\* A batch has reported a file without any date and has touched nothing.
C31_Witness ==
    /\ pc = "returned"
    /\ error_count = 1
    /\ errors # <<>>
    /\ errors[1].error = "Could not extract date"
    /\ Unresolvable(fs0, errors[1].source)
    /\ fs = fs0

\* ---------------------------------------------------------------- C32
\* validate_media accepts the file.
Valid(f, path) == Exists(f, path) /\ f[path].valid

\* C32: for each file the batch validates, then resolves the date, then
\* transfers: the date is resolved only right after the validation of a
\* valid file, copy_file is entered only right after the date was resolved,
\* and a file that fails validation gets one more record in invalid_files,
\* with invalid_count one higher, and no file is touched.
C32_ValidateDateTransfer ==
    /\ [][(pc' = "date" /\ pc # "date") => (pc = "file" /\ Valid(fs, source_path))]_vars
    /\ [][(pc' = "transfer" /\ pc # "transfer") => (pc = "date" /\ idx' = idx)]_vars
    /\ []((pc = "date" \/ InCopyFile) => Valid(fs0, source_path))
    /\ [][(pc = "file" /\ idx <= total_files /\ ~Valid(fs, source_path))
           => LET src == media_files[idx]
              IN  /\ invalid_count' = invalid_count + 1
                  /\ Len(invalid_files') = Len(invalid_files) + 1
                  /\ SubSeq(invalid_files', 1, Len(invalid_files)) = invalid_files
                  /\ invalid_files'[Len(invalid_files')].source = src
                  /\ UNCHANGED <<error_count, errors>>
                  /\ pc' = "file"
                  /\ fs' = fs]_vars

\* ---------------------------------------------------------------- C33
\* The operator said no to the dialog of the handler that has just run.
Declined(handler) ==
    /\ handler.op \in {"replace", "process_batch"}
    /\ handler.asked > 0
    /\ ~handler.confirmed

\* The operator said yes to the replace and the copy did not succeed.
ReplaceFailed(handler) ==
    /\ handler.op = "replace"
    /\ handler.confirmed
    /\ handler.count # 1

\* C33: when the operator declines the confirmation of a replace or of the
\* deletion of the marked sources, nothing changes at all; when the copy of
\* a confirmed replace fails, the working list, the marks and the current
\* index stay as they were and no file is removed (the existing file alone
\* may hold what the copy left).
C33_DeclinedOrFailedKeepsState ==
    [][/\ Declined(last')
          => /\ fs' = fs
             /\ UNCHANGED <<duplicates, marked_indices, current_index>>
       /\ ReplaceFailed(last')
          => /\ DOMAIN fs \subseteq DOMAIN fs'
             /\ \A p \in DOMAIN fs' :
                  (~Exists(fs, p) \/ fs'[p] # fs[p])
                      => p = At(duplicates, current_index).existing
             /\ UNCHANGED <<duplicates, marked_indices, current_index>>]_vars

\* The copy of a confirmed replace has failed part-way while a record was
\* marked; the record and the mark are still there.
C33_Witness ==
    /\ Reviewing
    /\ ReplaceFailed(last)
    /\ fs # fs0
    /\ marked_indices # {}
    /\ current_index < Len(duplicates)

\* ---------------------------------------------------------------- C34
\* C34: while the window holds a record, current_index names one of the
\* records, and the completion state (both widgets disabled by
\* _show_completion) is shown only once no record remains.
C34_IndexNamesARecord ==
    (Reviewing /\ duplicates # <<>>) =>
        /\ 0 <= current_index
        /\ current_index < Len(duplicates)
        /\ replace_btn = "normal"
        /\ mark_check = "normal"

\* ---------------------------------------------------------------- C35
\* The message at the head of the queue is the worker's last one and ends
\* its batch.
TerminalAtHead ==
    /\ progress_queue # <<>>
    /\ Head(progress_queue).type \in {"complete", "error"}
    /\ Head(progress_queue) = sent[Len(sent)]

\* C35: at most one worker runs: while a worker runs is_processing is true,
\* so that no start is accepted; is_processing goes from false to true
\* exactly when a worker is started, which happens only while no worker
\* runs; and it goes back to false only in the step of the poller that takes
\* the finished worker's complete or error message from the queue.
C35_OneWorkerAtATime ==
    /\ [](Running => (is_processing /\ start_btn = "disabled"))
    /\ [][(worker' = "running" /\ (worker # "running" \/ (pc' = "start" /\ pc # "start")))
            => (~is_processing /\ is_processing' /\ worker # "running")]_vars
    /\ [][(is_processing /\ ~is_processing')
            => /\ worker = "done"
               /\ poller = "draining"
               /\ TerminalAtHead
               /\ progress_queue' = Tail(progress_queue)]_vars

\* A second worker runs after the first one's complete message was taken.
C35_Witness ==
    /\ Running
    /\ first_run # NoRun
    /\ pc = "classify"
    /\ \E i \in DOMAIN handled : handled[i].type = "complete"

\* ---------------------------------------------------------------- C36
\* The positions in `sent` of the complete and error messages.
Terminals == {i \in DOMAIN sent : sent[i].type \in {"complete", "error"}}

\* C36: a started worker eventually puts a complete or an error message on
\* the queue; it puts exactly one, as its last message; and once the poller
\* has taken that message the start button is enabled again, which
\* eventually happens.
C36_OneTerminalMessageLast ==
    /\ [](worker \in {"none", "running"} => Terminals = {})
    /\ [](worker = "done" => Terminals = {Len(sent)})
    /\ Running ~> (worker = "done")
    /\ [][(TerminalAtHead /\ progress_queue' = Tail(progress_queue))
            => (start_btn' = "normal" /\ ~is_processing')]_vars
    /\ Running ~> (Terminals # {} /\ handled = sent /\ start_btn = "normal")

\* The worker has sent progress messages and then its complete message, and
\* the poller has taken them all.
C36_Witness ==
    /\ worker = "done"
    /\ Len(sent) > 2
    /\ sent[Len(sent)].type = "complete"
    /\ handled = sent
    /\ start_btn = "normal"

\* ---------------------------------------------------------------- C37
\* C37: in what process_media returns, every count is the length of its
\* list, and the image and video counts add up to the success count,
\* whatever the progress callback did.
C37_CountsAreLengths ==
    pc = "returned" =>
        /\ success_count = Len(success_files)
        /\ duplicate_count = Len(dup_list)
        /\ error_count = Len(errors)
        /\ invalid_count = Len(invalid_files)
        /\ image_count + video_count = success_count

\* ---------------------------------------------------------------- C38
\* The files the batch has recorded so far, in any of its lists.
Recorded ==
    Sources(success_files) \cup Sources(dup_list) \cup Sources(errors)
    \cup Sources(invalid_files)

\* C38: the list of files a batch works on is what the scan found before
\* anything was transferred and never changes afterwards; every file the
\* batch handles or records is on that list, so a file the batch itself
\* wrote is never handled, wherever the destination root lies.
C38_ScanFixesTheBatch ==
    /\ [][(pc \notin {"start", "returned"} /\ pc' # "start")
            => media_files' = media_files]_vars
    /\ [](InBatch =>
            /\ SeqToSet(media_files) \subseteq DOMAIN fs0
            /\ Recorded \subseteq SeqToSet(media_files)
            /\ idx \in DOMAIN media_files => source_path \in DOMAIN fs0)

\* A batch into the source folder itself has returned; it wrote a media
\* file into the tree it had scanned and did not handle that file.
C38_Witness ==
    /\ pc = "returned"
    /\ dest_folder = SourceRoot
    /\ success_count > 0
    /\ \E p \in (DOMAIN fs) \ (DOMAIN fs0) :
          /\ basename(p) \in Names
          /\ p \notin SeqToSet(media_files)
          /\ p \notin Recorded

\* ---------------------------------------------------------------- C39
\* C39: when copy_file returns an error, no file is at the destination
\* path it derived; hence a file is a duplicate only of a file that was
\* there when the batch started or that the batch transferred successfully.
C39_ErrorLeavesNoFile ==
    /\ [][(InCopyFile /\ pc' = "classify"
            /\ ~result'.success /\ ~result'.is_duplicate)
            => ~Exists(fs', dest_path)]_vars
    /\ []((pc = "classify" /\ result.is_duplicate)
            => \/ Exists(fs0, result.dest_path)
               \/ \E i \in DOMAIN success_files :
                     success_files[i].destination = result.dest_path)

====
